---- MODULE Spec2Model ----
(***************************************************************************)
(* The WASM execution core of apps/src/lib/node/vm/mod.rs: the four        *)
(* runners (TxRunner, VpRunner, MatchmakerRunner, FilterRunner), the       *)
(* validator and the instrumenter, as one state machine.  One invocation   *)
(* of a runner is in flight at a time; its stages and the steps of the     *)
(* guest it runs are the actions.  The host environment (host_env) and the *)
(* gas meters (shell::gas) are not part of the sources at hand and are     *)
(* modelled from the specification.                                        *)
(***************************************************************************)
EXTENDS Integers, Sequences, FiniteSets, TLC

VARIABLES
    pc,            \* the stage the invocation is about to execute
    runner,        \* which runner's run was called: "Tx", "VP", "MM", "F"
    inst,          \* the guest instance in hand: module, stages passed, ...
    evalStack,     \* the calling instances of a nested VP eval, outermost first
    gas,           \* gas consumed on the meter handed to the invocation
    gasLimit,      \* that meter's ceiling
    exceededAt,    \* eval depth of the first charge that passed the ceiling, -1 if none
    steps,         \* guest steps taken in this invocation
    storage,       \* Storage: key -> value or "absent"
    write_log,     \* WriteLog: key -> "absent" | value | "deleted"
    pre,           \* storage and write_log as they were when run was called
    verifiers,     \* the verifier set of the environment
    inserted,      \* addresses passed to insert_verifier in this invocation
    iterators,     \* the PrefixIterators of the invocation
    ret,           \* value the top-level guest entrypoint returned, -1 if none
    lastEval,      \* verdict the last nested eval gave its caller
    lateHostCalls, \* host calls performed on a meter already past its ceiling
    result,        \* what run returned
    runs,          \* invocations started so far
    vps,           \* the VP invocations running in parallel, by thread
    meters,        \* gas consumed on the VpGasMeter of each parallel invocation
    routerPc,      \* the router: "idle", "requested", "returned", ...
    request,       \* the request given to the router's handle
    response,      \* what handle returned
    mm,            \* the matchmaker invocation that feeds the channel
    chan,          \* the channel of MatchmakerMessage and its consumer
    p2p            \* the gossip node: rpc events handled, gossip, responses

vars == <<pc, runner, inst, evalStack, gas, gasLimit, exceededAt, steps,
          storage, write_log, pre, verifiers, inserted, iterators, ret, lastEval,
          lateHostCalls, result, runs, vps, meters, routerPc, request,
          response, mm, chan, p2p>>

\* The state of a runner's invocation.
vmVars ==
    <<pc, runner, inst, evalStack, gas, gasLimit, exceededAt, steps,
      storage, write_log, pre, verifiers, inserted, iterators, ret, lastEval,
      lateHostCalls, result, runs>>

\* The state of the parallel VP invocations, of the router and of the
\* matchmaker channel.
parVars == <<vps, meters>>
routerVars == <<routerPc, request, response>>
mmVars == <<mm, chan>>
rpcVars == <<p2p>>

----------------------------------------------------------------------------
(* Program constants *)

TX_ENTRYPOINT == "_apply_tx"
VP_ENTRYPOINT == "_validate_tx"
MATCHMAKER_ENTRYPOINT == "_match_intent"
FILTER_ENTRYPOINT == "_validate_intent"
WASM_STACK_LIMIT == 65535

(* Bounds of the model *)

NumKeys == 1
NumAddrs == 2
MaxSteps == 3
MaxBlock == 1
SmallGasLimit == 2
MaxEvalDepth == 1
MaxRuns == 2
NumVps == 2

\* A matchmaker sends at most MaxMsgs messages in an invocation; the channel
\* holds at most ChanCap of them.
MaxMsgs == 3
ChanCap == 2

\* The gossip node handles at most MaxEvents rpc events.
MaxEvents == 3

\* Typed arguments of the router's requests are 9 * v for v up to MaxArg;
\* every string of at most MaxRawLen bytes is requested as a path.
MaxArg == 2
MaxRawLen == 3

\* The height of the last block committed.
LastHeight == 1

Runners == {"Tx", "VP", "MM", "F"}
Keys == 1..NumKeys
Addresses == 1..NumAddrs
GuestRets == {0, 1, 2}
VpIds == 1..NumVps

----------------------------------------------------------------------------
(* Guest modules.  A module's bytes are described by what the stages read  *)
(* from them: the WASM features they use, whether they are well formed,    *)
(* the names they export, whether the entry export has the signature the   *)
(* runner asks for, and what the body does.                                *)

ForbiddenFeatures ==
    {"reference_types", "multi_value", "bulk_memory", "module_linking",
     "simd", "threads", "tail_call", "multi_memory", "exceptions", "memory64"}

EntryPoints ==
    {TX_ENTRYPOINT, VP_ENTRYPOINT, MATCHMAKER_ENTRYPOINT, FILTER_ENTRYPOINT}

StepsBody == [kind |-> "steps", n |-> 0]
LoopBody(n) == [kind |-> "loop", n |-> n]
\* An entry function that loops forever without a host call.
ForeverBody == [kind |-> "forever", n |-> 0]

\* The recursion depths of the stack-limiter tests and the one just below.
LoopArgs == {(WASM_STACK_LIMIT \div 4) - 1, WASM_STACK_LIMIT \div 4}

\* What the test modules export: the entry names without the underscore.
TestExports == {"memory", "apply_tx", "validate_tx"}

ExportShapes ==
    {{"memory"} \cup EntryPoints, {"memory"}, EntryPoints, {}}

BaseModule ==
    [features |-> {}, wellformed |-> TRUE,
     exports |-> {"memory"} \cup EntryPoints, sig |-> TRUE, body |-> StepsBody]

Modules ==
    {BaseModule}
    \cup {[BaseModule EXCEPT !.features = {f}] : f \in ForbiddenFeatures}
    \cup {[BaseModule EXCEPT !.wellformed = FALSE]}
    \cup {[BaseModule EXCEPT !.exports = e, !.sig = s] :
              e \in ExportShapes, s \in BOOLEAN}
    \cup {[BaseModule EXCEPT !.body = LoopBody(n)] : n \in LoopArgs}
    \cup {[BaseModule EXCEPT !.body = ForeverBody]}
    \cup {[BaseModule EXCEPT !.body = LoopBody(n), !.exports = TestExports,
                             !.sig = FALSE] : n \in LoopArgs}

\* Modules a VP guest hands to eval.
EvalModules ==
    {BaseModule, [BaseModule EXCEPT !.features = {"simd"}],
     [BaseModule EXCEPT !.exports = {"memory"}]}

----------------------------------------------------------------------------
(* Results *)

\* The router has no request, and no response, yet.
NoRequest ==
    [path |-> <<>>, handler |-> "", args |-> <<>>, router |-> "",
     height |-> 0, prove |-> FALSE, data |-> <<>>]
NoResponse ==
    [kind |-> "none", handler |-> "", args |-> <<>>, err |-> "",
     path |-> <<>>, data |-> <<>>, info |-> "", proof |-> FALSE]

\* No matchmaker runs; the channel is empty and its consumer listens.
NoMatchmaker == [pc |-> "idle", prog |-> <<>>, sent |-> <<>>]
NewChannel == [queue |-> <<>>, delivered |-> <<>>, closed |-> FALSE]

\* The gossip node after P2P::new: no rpc event handled, nothing published,
\* no response returned, subscribed to the topics of the configuration.
NewP2P ==
    [events |-> <<>>, gossip |-> <<>>, responses |-> <<>>,
     subscribed |-> {"asset_v1"}]

NoResult ==
    [kind |-> "none", verdict |-> FALSE, verifiers |-> {}, err |-> "",
     trap |-> "", entrypoint |-> ""]
OkVerifiers(vs) == [NoResult EXCEPT !.kind = "Ok", !.verifiers = vs]
OkBool(b) == [NoResult EXCEPT !.kind = "Ok", !.verdict = b]
\* Faulty variant of Err: the error carries the verifiers accumulated so far.
Err_carrying(e) ==
    [NoResult EXCEPT !.kind = "Err", !.err = e, !.verifiers = verifiers]
Err(e) == [NoResult EXCEPT !.kind = "Err", !.err = e]
RuntimeError(trap) == [Err("RuntimeError") EXCEPT !.trap = trap]
UnexpectedModuleEntrypointInterface(entrypoint) ==
    [Err("UnexpectedModuleEntrypointInterface") EXCEPT !.entrypoint = entrypoint]

----------------------------------------------------------------------------
(* Validator *)

\* Faulty variant of WasmFeatures: simd left enabled.
WasmFeatures_simd ==
    [reference_types |-> FALSE, multi_value |-> FALSE, bulk_memory |-> FALSE,
     module_linking |-> FALSE, simd |-> TRUE, threads |-> FALSE,
     tail_call |-> FALSE, deterministic_only |-> TRUE,
     multi_memory |-> FALSE, exceptions |-> FALSE, memory64 |-> FALSE]

\* The feature mask validate_untrusted_wasm gives the validator.
WasmFeatures ==
    [reference_types |-> FALSE, multi_value |-> FALSE, bulk_memory |-> FALSE,
     module_linking |-> FALSE, simd |-> FALSE, threads |-> FALSE,
     tail_call |-> FALSE, deterministic_only |-> TRUE,
     multi_memory |-> FALSE, exceptions |-> FALSE, memory64 |-> FALSE]

\* validate_all: an error for malformed bytes and for a module that uses a
\* feature the mask does not enable.
validate_untrusted_wasm(m) ==
    IF m.wellformed /\ \A f \in m.features : WasmFeatures[f]
    THEN "Ok" ELSE "ValidationError"

(* Instrumenter *)

\* The gas rules: rules::Set::default() charges 1 per instruction;
\* with_grow_cost(1) charges 1 per page grown.
get_gas_rules == [regular |-> 1, grow |-> 1]

\* Faulty variant of prepare_wasm_code: the limiter is injected before the
\* gas counter.
prepare_wasm_code_limiterFirst(deser, gasInj, limInj, ser) ==
    IF ~deser THEN "DeserializationError"
    ELSE IF ~limInj THEN "StackLimiterInjection"
    ELSE IF ~gasInj THEN "GasMeterInjection"
    ELSE IF ~ser THEN "SerializationError"
    ELSE "Ok"

\* prepare_wasm_code, given whether each of its four library calls succeeds
\* on the bytes: deserialize, inject the gas counter, inject the stack-height
\* limiter, serialize.
prepare_wasm_code(deser, gasInj, limInj, ser) ==
    IF ~deser THEN "DeserializationError"
    ELSE IF ~gasInj THEN "GasMeterInjection"
    ELSE IF ~limInj THEN "StackLimiterInjection"
    ELSE IF ~ser THEN "SerializationError"
    ELSE "Ok"

----------------------------------------------------------------------------
(* The stages of each run, in the order the code executes them.            *)
(*   validate      validate_untrusted_wasm                                 *)
(*   prepare       prepare_wasm_code                                       *)
(*   compile       wasmer::Module::new                                     *)
(*   memory        memory::prepare_*_memory                                *)
(*   instantiate   host_env::prepare_*_imports and wasmer::Instance::new   *)
(*   get_memory    exports.get_memory("memory")                            *)
(*   write_inputs  memory::write_*_inputs                                  *)
(*   get_entry     exports.get_function(ENTRYPOINT) and native()           *)
(*   call          the call of the entrypoint                              *)

\* Faulty variant of TxRunWithInput: the entrypoint is looked up before the
\* memory export.
TxRunWithInput_entryFirst ==
    <<"get_entry", "get_memory", "write_inputs", "call">>

TxRunWithInput == <<"get_memory", "write_inputs", "get_entry", "call">>
VpRunWithInput == <<"get_memory", "write_inputs", "get_entry", "call">>
MatchmakerRunWithInput == <<"get_memory", "write_inputs", "get_entry", "call">>
FilterRunWithInput == <<"get_memory", "write_inputs", "get_entry", "call">>

TxRun ==
    <<"validate", "prepare", "compile", "memory", "instantiate">>
        \o TxRunWithInput
VpRun ==
    <<"validate", "prepare", "compile", "memory", "instantiate">>
        \o VpRunWithInput
VpRunEval ==
    <<"prepare", "compile", "memory", "instantiate">> \o VpRunWithInput
MatchmakerRun ==
    <<"compile", "memory", "instantiate">> \o MatchmakerRunWithInput
FilterRun ==
    <<"validate", "prepare", "compile", "memory", "instantiate">>
        \o FilterRunWithInput

PipelineOf(r, nested) ==
    IF nested THEN VpRunEval
    ELSE CASE r = "Tx" -> TxRun
           [] r = "VP" -> VpRun
           [] r = "MM" -> MatchmakerRun
           [] r = "F" -> FilterRun

\* The stage that follows stage s in pipeline p; the guest runs after the last.
After(p, s) ==
    LET i == CHOOSE j \in 1..Len(p) : p[j] = s
    IN IF i < Len(p) THEN p[i + 1] ELSE "guest"

\* Faulty variant of EntrypointOf: the filter looks up the matchmaker's symbol.
EntrypointOf_copied(r) ==
    CASE r = "Tx" -> TX_ENTRYPOINT
      [] r = "VP" -> VP_ENTRYPOINT
      [] r = "MM" -> MATCHMAKER_ENTRYPOINT
      [] r = "F" -> MATCHMAKER_ENTRYPOINT

\* The entry symbol each run_with_input looks up and names in its error.
EntrypointOf(r) ==
    CASE r = "Tx" -> TX_ENTRYPOINT
      [] r = "VP" -> VP_ENTRYPOINT
      [] r = "MM" -> MATCHMAKER_ENTRYPOINT
      [] r = "F" -> FILTER_ENTRYPOINT

\* Faulty variant of ImportsOf: the VP instance is given the Tx import table.
ImportsOf_tx(r) ==
    CASE r = "Tx" -> "tx"
      [] r = "VP" -> "tx"
      [] r = "MM" -> "matchmaker"
      [] r = "F" -> "filter"

\* The import table each run builds for its instance.
ImportsOf(r) ==
    CASE r = "Tx" -> "tx"
      [] r = "VP" -> "vp"
      [] r = "MM" -> "matchmaker"
      [] r = "F" -> "filter"

\* Faulty variants of the verdict mappings: the VP takes any nonzero value for
\* accept; the matchmaker takes 1 for a match.
VpVerdict_nonzero(v) == v # 0
MatchmakerVerdict_one(v) == v = 1

\* What the runners make of the value the entrypoint returned.
VpVerdict(v) == v = 1
MatchmakerVerdict(v) == v = 0
FilterVerdict(v) == v = 0

\* Faulty variant of TrapResult: a trap is swallowed into a verdict.
TrapResult_swallowed(trap) == OkBool(FALSE)

\* A trap of the guest call is returned as Error::RuntimeError.
TrapResult(trap) == RuntimeError(trap)

\* PrefixIterators: the next handle to give out, and the cursors by their
\* handle; a cursor is at a position under its prefix and belongs to the
\* invocation that opened it.
NoIterators == [index |-> 0, cursors |-> {}]

\* Faulty variant of NewIterators: the iterators of the previous invocation
\* are kept.
NewIterators_kept(previous) == previous

\* The iterators an invocation starts with: PrefixIterators::new().
NewIterators(previous) == NoIterators

\* Faulty variant of NewVerifiers: the set of the previous invocation is kept.
NewVerifiers_kept(previous) == previous

\* The verifier set a Tx invocation starts with: HashSet::new().
NewVerifiers(previous) == {}

----------------------------------------------------------------------------
(* Host environment and gas meters (modelled from the specification) *)

HostCalls(table) ==
    CASE table = "tx" ->
           {"read", "has_key", "write", "delete", "iter_prefix", "iter_next",
            "insert_verifier", "update_validity_predicate", "init_account",
            "get_chain_id", "get_block_height", "get_block_hash",
            "log_string", "gas"}
      [] table = "vp" ->
           {"read_pre", "read_post", "has_key_pre", "has_key_post",
            "iter_prefix", "iter_pre_next", "iter_post_next", "get_chain_id",
            "get_block_height", "get_block_hash", "eval", "log_string", "gas"}
      [] table = "matchmaker" ->
           {"send_match", "update_data", "remove_intents", "log_string", "gas"}
      [] table = "filter" ->
           {"send_match", "update_data", "remove_intents", "log_string", "gas"}

\* Host calls that only read host state.
ReadOnlyCalls ==
    {"read", "has_key", "read_pre", "read_post", "has_key_pre",
     "has_key_post", "get_chain_id", "get_block_height", "get_block_hash",
     "log_string"}

\* What a host call charges before it does its work.
HostCallGas == 1

\* The ceiling of a default meter, as the tests use; far above what the
\* recursion of the stack-limiter tests consumes.
DefaultGasLimit == 10000000

\* Faulty variant of Charged: the charge is not added.
Charged_free(g, cost) == g

\* A meter adds the charge and then compares with its ceiling.
Charged(g, cost) == g + cost
Exceeded(g, limit) == g > limit

(* Stack-height limiter (pwasm_utils::stack_height), on the recursive      *)
(* module of the tests: every call into $loop takes LoopCallCost of stack  *)
(* height, the entry function takes EntryStackCost, and a call traps with  *)
(* unreachable when the height it would reach is above the limit.          *)
LoopCallCost == 4
EntryStackCost == 3
LoopInstrs == 7
\* Faulty variant of LimiterTraps: the limit itself already traps.
LimiterTraps_atLimit(height, limit) == height >= limit
LimiterTraps(height, limit) == height > limit

\* $loop is entered n + 1 times for the argument n.
LoopCalls(n) == n + 1
\* The height the recursion asks for, and the calls that fit under the limit.
LoopHeight(calls) == EntryStackCost + LoopCallCost * calls
LoopFit(limit) == (limit - EntryStackCost) \div LoopCallCost

----------------------------------------------------------------------------
(* State *)

NewInstance(m) ==
    [module |-> m, stages |-> <<>>, instrumented |-> FALSE, height |-> 0,
     phase |-> FALSE, prep |-> <<>>]

\* A VP invocation about to run in parallel with others: the guest program
\* of its module (the host calls it makes, in order), the ceiling of its
\* meter, the host call it is at (0 before the instance exists), the values
\* it has read, and its result.
NewVp(prog, limit) ==
    [prog |-> prog, limit |-> limit, ip |-> 0, seen |-> <<>>,
     result |-> NoResult]

Init ==
    /\ pc = "idle"
    /\ runner = "Tx"
    /\ inst = NewInstance(BaseModule)
    /\ evalStack = <<>>
    /\ gas = 0
    /\ gasLimit = SmallGasLimit
    /\ exceededAt = -1
    /\ steps = 0
    /\ storage = [k \in Keys |-> IF k = 1 THEN "a" ELSE "absent"]
    /\ write_log = [k \in Keys |-> "absent"]
    /\ pre = [storage |-> storage, write_log |-> write_log]
    /\ verifiers = {}
    /\ inserted = {}
    /\ iterators = NoIterators
    /\ ret = -1
    /\ lastEval = "none"
    /\ lateHostCalls = 0
    /\ result = NoResult
    /\ runs = 0
    /\ vps = [i \in VpIds |-> NewVp(<<>>, 0)]
    /\ meters = [i \in VpIds |-> 0]
    /\ routerPc = "idle"
    /\ request = NoRequest
    /\ response = NoResponse
    /\ mm = NoMatchmaker
    /\ chan = NewChannel
    /\ p2p = NewP2P

\* What the eval host call makes of the nested run's result.
EvalVerdict(res) ==
    IF res.kind = "Ok" /\ res.verdict THEN "accept" ELSE "reject"

\* Faulty variant of Return: a failed stage is tried again.
Return_retry(res, i) ==
    IF evalStack = <<>>
    THEN /\ pc' = IF res.kind = "Err" THEN pc ELSE "done"
         /\ result' = res
         /\ inst' = i
         /\ UNCHANGED <<evalStack, lastEval>>
    ELSE /\ pc' = "guest"
         /\ inst' = evalStack[Len(evalStack)]
         /\ evalStack' = SubSeq(evalStack, 1, Len(evalStack) - 1)
         /\ lastEval' = EvalVerdict(res)
         /\ UNCHANGED result

\* The instance in hand ends with res, leaving the instance as i: the
\* top-level run returns res to its caller; run_eval returns it to the eval
\* host call, and the calling guest goes on.
Return(res, i) ==
    IF evalStack = <<>>
    THEN /\ pc' = "done"
         /\ result' = res
         /\ inst' = i
         /\ UNCHANGED <<evalStack, lastEval>>
    ELSE /\ pc' = "guest"
         /\ inst' = evalStack[Len(evalStack)]
         /\ evalStack' = SubSeq(evalStack, 1, Len(evalStack) - 1)
         /\ lastEval' = EvalVerdict(res)
         /\ UNCHANGED result

\* Stage s succeeded, leaving the instance as i.
Advance(s, i) ==
    /\ pc' = After(PipelineOf(runner, evalStack # <<>>), s)
    /\ inst' = [i EXCEPT !.stages = Append(@, s)]
    /\ UNCHANGED <<result, evalStack, lastEval>>

StayInGuest == UNCHANGED <<pc, inst, evalStack, lastEval, result>>

\* What a stage leaves alone.
invVars ==
    <<runner, gas, gasLimit, exceededAt, steps, storage, write_log, pre,
      verifiers, inserted, iterators, ret, lateHostCalls, runs, parVars, routerVars, mmVars, rpcVars>>

----------------------------------------------------------------------------
(* The caller starts an invocation *)

Call(r, m, vs) ==
    /\ pc = "idle"
    /\ runs < MaxRuns
    /\ r = "VP" \/ vs = {}
    /\ runs' = runs + 1
    /\ runner' = r
    /\ inst' = NewInstance(m)
    /\ evalStack' = <<>>
    /\ pc' = PipelineOf(r, FALSE)[1]
    /\ gas' = 0
    /\ gasLimit' = IF m.body.kind = "loop" THEN DefaultGasLimit
                                           ELSE SmallGasLimit
    /\ exceededAt' = -1
    /\ steps' = 0
    /\ pre' = [storage |-> storage, write_log |-> write_log]
    /\ verifiers' = IF r = "Tx" THEN NewVerifiers(verifiers) ELSE vs
    /\ inserted' = {}
    /\ iterators' = NewIterators(iterators)
    /\ ret' = -1
    /\ lastEval' = "none"
    /\ lateHostCalls' = 0
    /\ result' = NoResult
    /\ UNCHANGED <<storage, write_log, parVars, routerVars, mmVars, rpcVars>>

\* run has returned: the caller takes the result and the invocation's
\* locals are gone.
Collect ==
    /\ pc = "done"
    /\ pc' = "idle"
    /\ inst' = NewInstance(BaseModule)
    /\ gas' = 0
    /\ gasLimit' = SmallGasLimit
    /\ exceededAt' = -1
    /\ steps' = 0
    /\ pre' = [storage |-> storage, write_log |-> write_log]
    /\ inserted' = {}
    /\ ret' = -1
    /\ lastEval' = "none"
    /\ lateHostCalls' = 0
    /\ result' = NoResult
    /\ UNCHANGED <<runner, evalStack, storage, write_log, verifiers,
                   iterators, runs, parVars, routerVars, mmVars, rpcVars>>

----------------------------------------------------------------------------
(* The stages *)

\* Faulty variant of Validate: a module the validator refuses is reported as
\* the verdict reject.
Validate_reject ==
    /\ pc = "validate"
    /\ IF validate_untrusted_wasm(inst.module) = "Ok"
       THEN Advance("validate", inst)
       ELSE Return(OkBool(FALSE), inst)
    /\ UNCHANGED invVars

Validate ==
    /\ pc = "validate"
    /\ IF validate_untrusted_wasm(inst.module) = "Ok"
       THEN Advance("validate", inst)
       ELSE Return(Err("ValidationError"), inst)
    /\ UNCHANGED invVars

Prepare ==
    /\ pc = "prepare"
    /\ \E deser, gasInj, limInj, ser \in BOOLEAN :
         LET r == prepare_wasm_code(deser, gasInj, limInj, ser)
             i == [inst EXCEPT !.prep = <<deser, gasInj, limInj, ser>>]
         IN IF r = "Ok"
            THEN Advance("prepare", [i EXCEPT !.instrumented = TRUE])
            ELSE Return(Err(r), i)
    /\ UNCHANGED invVars

Compile ==
    /\ pc = "compile"
    /\ \E ok \in BOOLEAN :
         IF ok THEN Advance("compile", inst)
         ELSE Return(Err("CompileError"), inst)
    /\ UNCHANGED invVars

PrepareMemory ==
    /\ pc = "memory"
    /\ \E ok \in BOOLEAN :
         IF ok THEN Advance("memory", inst)
         ELSE Return(Err("MemoryError"), inst)
    /\ UNCHANGED invVars

Instantiate ==
    /\ pc = "instantiate"
    /\ \E ok \in BOOLEAN :
         IF ok THEN Advance("instantiate", inst)
         ELSE Return(Err("InstantiationError"), inst)
    /\ UNCHANGED invVars

GetMemory ==
    /\ pc = "get_memory"
    /\ IF "memory" \in inst.module.exports
       THEN Advance("get_memory", inst)
       ELSE Return(Err("MissingModuleMemory"), inst)
    /\ UNCHANGED invVars

WriteInputs ==
    /\ pc = "write_inputs"
    /\ \E ok \in BOOLEAN :
         IF ok THEN Advance("write_inputs", inst)
         ELSE Return(Err("MemoryError"), inst)
    /\ UNCHANGED invVars

GetEntry ==
    /\ pc = "get_entry"
    /\ IF EntrypointOf(runner) \notin inst.module.exports
       THEN Return(Err("MissingModuleEntrypoint"), inst)
       ELSE IF ~inst.module.sig
       THEN Return(UnexpectedModuleEntrypointInterface(EntrypointOf(runner)),
                   inst)
       ELSE Advance("get_entry", inst)
    /\ UNCHANGED invVars

\* The entrypoint is called: the guest starts.
Invoke ==
    /\ pc = "call"
    /\ Advance("call", inst)
    /\ UNCHANGED invVars

----------------------------------------------------------------------------
(* The guest.  A "steps" body is any program: it runs metered blocks of    *)
(* instructions, calls host functions of its import table, and ends by     *)
(* returning a value or by a trap.  The gas counter charges a block when   *)
(* the block is entered, so a return or a host call that follows in the    *)
(* same block charges no instruction gas of its own.                       *)

Running == pc = "guest" /\ inst.module.body.kind = "steps"

\* The depth of the first charge that takes the meter past its ceiling.
NewExceededAt(g) ==
    IF exceededAt = -1 /\ Exceeded(g, gasLimit) THEN Len(evalStack)
    ELSE exceededAt

\* What run returns when the top-level entrypoint returned v; run_eval
\* returns as VpRunner::run_with_input does.
EntryResult(v) ==
    IF evalStack # <<>> THEN OkBool(VpVerdict(v))
    ELSE CASE runner = "Tx" -> OkVerifiers(verifiers)
           [] runner = "VP" -> OkBool(VpVerdict(v))
           [] runner = "MM" -> OkBool(MatchmakerVerdict(v))
           [] runner = "F" -> OkBool(FilterVerdict(v))

\* A block of n instructions.  Only a module rewritten by prepare_wasm_code
\* calls the gas function.
GuestBlock(n) ==
    /\ Running
    /\ steps < MaxSteps
    /\ steps' = steps + 1
    /\ LET cost == IF inst.instrumented THEN n * get_gas_rules.regular ELSE 0
           g == Charged(gas, cost)
       IN /\ gas' = g
          /\ exceededAt' = NewExceededAt(g)
          /\ IF inst.instrumented /\ Exceeded(g, gasLimit)
             THEN Return(TrapResult("GasExceeded"), inst)
             ELSE StayInGuest
    /\ UNCHANGED <<runner, gasLimit, storage, write_log, pre, verifiers,
                   inserted, iterators, ret, lateHostCalls, runs, parVars, routerVars, mmVars, rpcVars>>

GuestReturn(v) ==
    /\ Running
    /\ runner = "Tx" => v = 0
    /\ ret' = IF evalStack = <<>> THEN v ELSE ret
    /\ Return(EntryResult(v), inst)
    /\ UNCHANGED <<runner, gas, gasLimit, exceededAt, steps, storage,
                   write_log, pre, verifiers, inserted, iterators, lateHostCalls, runs,
                   parVars, routerVars, mmVars, rpcVars>>

\* The guest executes unreachable.
GuestTrap ==
    /\ Running
    /\ Return(TrapResult("UnreachableCodeReached"), inst)
    /\ UNCHANGED invVars

(* Host calls: each charges the meter, traps the guest when the charge     *)
(* passes the ceiling, and otherwise does its work.                        *)

HostPre(op) ==
    /\ Running
    /\ steps < MaxSteps
    /\ op \in HostCalls(ImportsOf(runner))

HostCharge == Charged(gas, HostCallGas)
HostTrapped == Exceeded(HostCharge, gasLimit)

HostMeter ==
    /\ steps' = steps + 1
    /\ gas' = HostCharge
    /\ exceededAt' = NewExceededAt(HostCharge)

\* The call did its work; it is late when the meter was past its ceiling
\* before the call.
Performed ==
    lateHostCalls' =
        lateHostCalls + (IF Exceeded(gas, gasLimit) THEN 1 ELSE 0)

HostTrap ==
    /\ Return(TrapResult("GasExceeded"), inst)
    /\ UNCHANGED lateHostCalls

HostRead ==
    /\ \E op \in ReadOnlyCalls : HostPre(op)
    /\ HostMeter
    /\ IF HostTrapped THEN HostTrap ELSE StayInGuest /\ Performed
    /\ UNCHANGED <<runner, gasLimit, storage, write_log, pre, verifiers,
                   inserted, iterators, ret, runs, parVars, routerVars, mmVars, rpcVars>>

\* Faulty variant of TxModify: the value is put into Storage.
TxModify_storage(st, wl, k, v) ==
    [storage |-> [st EXCEPT ![k] = IF v = "deleted" THEN "absent" ELSE v],
     write_log |-> wl]

\* What a Tx host call that modifies key k leaves in the two handles run
\* was given: Storage is a shared reference and is only read; the
\* modification goes to the write log.
TxModify(st, wl, k, v) ==
    [storage |-> st, write_log |-> [wl EXCEPT ![k] = v]]

HostWrite(k) ==
    /\ HostPre("write")
    /\ HostMeter
    /\ IF HostTrapped
       THEN HostTrap /\ UNCHANGED <<storage, write_log>>
       ELSE /\ StayInGuest
            /\ Performed
            /\ storage' = TxModify(storage, write_log, k, "a").storage
            /\ write_log' = TxModify(storage, write_log, k, "a").write_log
    /\ UNCHANGED <<runner, gasLimit, pre, verifiers, inserted, iterators, ret, runs,
                   parVars, routerVars, mmVars, rpcVars>>

HostDelete(k) ==
    /\ HostPre("delete")
    /\ HostMeter
    /\ IF HostTrapped
       THEN HostTrap /\ UNCHANGED <<storage, write_log>>
       ELSE /\ StayInGuest
            /\ Performed
            /\ storage' = TxModify(storage, write_log, k, "deleted").storage
            /\ write_log' =
                   TxModify(storage, write_log, k, "deleted").write_log
    /\ UNCHANGED <<runner, gasLimit, pre, verifiers, inserted, iterators, ret, runs,
                   parVars, routerVars, mmVars, rpcVars>>

HostInsertVerifier(a) ==
    /\ HostPre("insert_verifier")
    /\ HostMeter
    /\ IF HostTrapped
       THEN HostTrap /\ UNCHANGED <<verifiers, inserted>>
       ELSE /\ StayInGuest
            /\ Performed
            /\ verifiers' = verifiers \cup {a}
            /\ inserted' = inserted \cup {a}
    /\ UNCHANGED <<runner, gasLimit, storage, write_log, pre, iterators, ret,
                   runs, parVars, routerVars, mmVars, rpcVars>>

\* iter_prefix: a cursor is opened and its handle, the next index, is
\* returned.
HostIterPrefix ==
    /\ HostPre("iter_prefix")
    /\ HostMeter
    /\ IF HostTrapped
       THEN HostTrap /\ UNCHANGED iterators
       ELSE /\ StayInGuest
            /\ Performed
            /\ iterators' =
                   [index |-> iterators.index + 1,
                    cursors |-> iterators.cursors \cup
                                    {[handle |-> iterators.index,
                                      run |-> runs, pos |-> 0]}]
    /\ UNCHANGED <<runner, gasLimit, storage, write_log, pre, verifiers,
                   inserted, ret, runs, parVars, routerVars, mmVars, rpcVars>>

\* iter_next and its pre and post forms in the VP table: the cursor of the
\* handle the guest gives moves on; a handle that has no cursor gives
\* nothing.
HostIterNext(h) ==
    /\ \E op \in {"iter_next", "iter_pre_next", "iter_post_next"} :
           HostPre(op)
    /\ HostMeter
    /\ IF HostTrapped
       THEN HostTrap /\ UNCHANGED iterators
       ELSE /\ StayInGuest
            /\ Performed
            /\ iterators' =
                   [iterators EXCEPT !.cursors =
                       {IF c.handle = h /\ c.pos < NumKeys
                        THEN [c EXCEPT !.pos = @ + 1] ELSE c : c \in @}]
    /\ UNCHANGED <<runner, gasLimit, storage, write_log, pre, verifiers,
                   inserted, ret, runs, parVars, routerVars, mmVars, rpcVars>>

\* Faulty variant of HostEval: the nested run is given a meter of its own.
HostEval_ownMeter(m) ==
    /\ HostPre("eval")
    /\ Len(evalStack) < MaxEvalDepth
    /\ steps' = steps + 1
    /\ exceededAt' = NewExceededAt(HostCharge)
    /\ IF HostTrapped
       THEN HostTrap /\ gas' = HostCharge
       ELSE /\ Performed
            /\ gas' = 0
            /\ pc' = VpRunEval[1]
            /\ evalStack' = Append(evalStack, inst)
            /\ inst' = NewInstance(m)
            /\ UNCHANGED <<result, lastEval>>
    /\ UNCHANGED <<runner, gasLimit, storage, write_log, pre, verifiers,
                   inserted, iterators, ret, runs, parVars, routerVars, mmVars, rpcVars>>

\* eval: run_eval on bytes the guest supplies, in the caller's environment.
HostEval(m) ==
    /\ HostPre("eval")
    /\ Len(evalStack) < MaxEvalDepth
    /\ HostMeter
    /\ IF HostTrapped
       THEN HostTrap
       ELSE /\ Performed
            /\ pc' = VpRunEval[1]
            /\ evalStack' = Append(evalStack, inst)
            /\ inst' = NewInstance(m)
            /\ UNCHANGED <<result, lastEval>>
    /\ UNCHANGED <<runner, gasLimit, storage, write_log, pre, verifiers,
                   inserted, iterators, ret, runs, parVars, routerVars, mmVars, rpcVars>>

(* The recursive body of the stack-limiter tests, run to its end: the      *)
(* entry function calls $loop with the argument n.  In a module the        *)
(* instrumenter rewrote, every call is checked against the limit; a module *)
(* it did not rewrite recurses unchecked and either returns or overflows   *)
(* the native stack.                                                       *)
GuestLoop ==
    /\ pc = "guest"
    /\ inst.module.body.kind = "loop"
    /\ steps' = steps + 1
    /\ LET calls == LoopCalls(inst.module.body.n)
           over == LimiterTraps(LoopHeight(calls), WASM_STACK_LIMIT)
       IN IF inst.instrumented
          THEN LET entered == IF over THEN LoopFit(WASM_STACK_LIMIT)
                                      ELSE calls
                   g == Charged(gas, LoopInstrs * get_gas_rules.regular
                                         * entered)
                   i == [inst EXCEPT !.height = LoopHeight(entered)]
               IN /\ gas' = g
                  /\ exceededAt' = NewExceededAt(g)
                  /\ ret' = IF ~Exceeded(g, gasLimit) /\ ~over
                                /\ evalStack = <<>>
                            THEN 0 ELSE ret
                  /\ IF Exceeded(g, gasLimit)
                     THEN Return(TrapResult("GasExceeded"), i)
                     ELSE IF over
                     THEN Return(TrapResult("UnreachableCodeReached"), i)
                     ELSE Return(EntryResult(0), i)
          ELSE LET i == [inst EXCEPT !.height = LoopHeight(calls)]
               IN /\ UNCHANGED <<gas, exceededAt>>
                  /\ \/ /\ ret' = IF evalStack = <<>> THEN 0 ELSE ret
                        /\ Return(EntryResult(0), i)
                     \/ /\ UNCHANGED ret
                        /\ Return(TrapResult("StackOverflow"), i)
    /\ UNCHANGED <<runner, gasLimit, storage, write_log, pre, verifiers,
                   inserted, iterators, lateHostCalls, runs, parVars, routerVars, mmVars, rpcVars>>

(* The body that loops forever, one iteration at a step.  In a module the  *)
(* instrumenter rewrote, the loop body is a metered block: every iteration *)
(* calls the gas function, which traps the guest once the meter is past    *)
(* its ceiling.  A module it did not rewrite is never charged and goes on. *)
(* phase is the loop's own state, which an iteration flips.                *)
GuestSpin ==
    /\ pc = "guest"
    /\ inst.module.body.kind = "forever"
    /\ IF inst.instrumented
       THEN LET g == Charged(gas, get_gas_rules.regular)
            IN /\ gas' = g
               /\ exceededAt' = NewExceededAt(g)
               /\ IF Exceeded(g, gasLimit)
                  THEN Return(TrapResult("GasExceeded"), inst)
                  ELSE /\ inst' = [inst EXCEPT !.phase = ~@]
                       /\ UNCHANGED <<pc, evalStack, lastEval, result>>
       ELSE /\ inst' = [inst EXCEPT !.phase = ~@]
            /\ UNCHANGED <<pc, evalStack, lastEval, result, gas, exceededAt>>
    /\ UNCHANGED <<runner, gasLimit, steps, storage, write_log, pre,
                   verifiers, inserted, iterators, ret, lateHostCalls, runs, parVars,
                   routerVars, mmVars, rpcVars>>

----------------------------------------------------------------------------

Next ==
    \/ \E r \in Runners, m \in Modules, vs \in {{}, Addresses} :
         Call(r, m, vs)
    \/ Collect
    \/ Validate
    \/ Prepare
    \/ Compile
    \/ PrepareMemory
    \/ Instantiate
    \/ GetMemory
    \/ WriteInputs
    \/ GetEntry
    \/ Invoke
    \/ \E n \in 1..MaxBlock : GuestBlock(n)
    \/ \E v \in GuestRets : GuestReturn(v)
    \/ GuestTrap
    \/ HostRead
    \/ \E k \in Keys : HostWrite(k)
    \/ \E k \in Keys : HostDelete(k)
    \/ \E a \in Addresses : HostInsertVerifier(a)
    \/ \E m \in EvalModules : HostEval(m)
    \/ HostIterPrefix
    \/ \E h \in 0..(MaxSteps - 1) : HostIterNext(h)
    \/ GuestLoop
    \/ GuestSpin

Spec == Init /\ [][Next]_vars

\* The machine that runs an invocation does not stop while a step is
\* possible.
FairSpec == Spec /\ WF_vars(Next)

----------------------------------------------------------------------------
(* VP invocations running in parallel.  The caller starts VpRunner::run    *)
(* on several threads with the same &Storage, &WriteLog, keys_changed and  *)
(* verifiers, and a VpGasMeter and iterators of its own for each.  A step  *)
(* of one invocation is atomic; the steps of different invocations         *)
(* interleave freely.  A guest program is the sequence of host calls its   *)
(* module makes; it accepts when the last value it read is "a" or it read  *)
(* nothing.                                                                *)

\* The key the programs use.
ParKey == CHOOSE k \in Keys : \A j \in Keys : k <= j

VpPrograms ==
    {<<>>, <<"read_post">>, <<"read_pre", "read_post">>,
     <<"delete", "read_post">>}
VpLimits == {HostCallGas, SmallGasLimit}

\* What read_pre and read_post return: the value in storage, and the value
\* after the write log is applied to storage.
ReadPre(st, k) == st[k]
ReadPost(st, wl, k) ==
    IF wl[k] = "absent" THEN st[k]
    ELSE IF wl[k] = "deleted" THEN "absent"
    ELSE wl[k]

VpGuestRet(seen) == IF seen = <<>> \/ seen[Len(seen)] = "a" THEN 1 ELSE 0

\* Faulty variant of ParMeter: every invocation is handed the first meter.
ParMeter_shared(i) == CHOOSE j \in VpIds : \A k \in VpIds : j <= k

\* The meter invocation i charges: the one its caller handed it.
ParMeter(i) == i

\* One step of the invocation v with g consumed on its meter, against the
\* storage st and the write log wl: the instance is made (an import the VP
\* table lacks fails the instantiation), or the host call v is at charges
\* the meter and is performed, or the entrypoint returns.
VpStep(v, g, st, wl) ==
    IF v.ip = 0
    THEN IF {v.prog[j] : j \in DOMAIN v.prog} \subseteq
                HostCalls(ImportsOf("VP"))
         THEN [vp |-> [v EXCEPT !.ip = 1], gas |-> g, write_log |-> wl]
         ELSE [vp |-> [v EXCEPT !.result = Err("InstantiationError")],
               gas |-> g, write_log |-> wl]
    ELSE IF v.ip <= Len(v.prog)
    THEN LET op == v.prog[v.ip]
             c == Charged(g, HostCallGas)
         IN IF Exceeded(c, v.limit)
            THEN [vp |-> [v EXCEPT !.result = TrapResult("GasExceeded")],
                  gas |-> c, write_log |-> wl]
            ELSE [vp |-> [v EXCEPT
                            !.ip = @ + 1,
                            !.seen =
                               IF op = "read_pre"
                               THEN Append(@, ReadPre(st, ParKey))
                               ELSE IF op = "read_post"
                               THEN Append(@, ReadPost(st, wl, ParKey))
                               ELSE @],
                  gas |-> c,
                  write_log |-> IF op = "delete"
                                THEN [wl EXCEPT ![ParKey] = "deleted"]
                                ELSE wl]
    ELSE [vp |-> [v EXCEPT !.result = OkBool(VpVerdict(VpGuestRet(v.seen)))],
          gas |-> g, write_log |-> wl]

\* Invocation i takes its next step against the shared storage and write log.
ParApply(i) ==
    LET r == VpStep(vps[i], meters[ParMeter(i)], storage, write_log)
    IN /\ vps' = [vps EXCEPT ![i] = r.vp]
       /\ meters' = [meters EXCEPT ![ParMeter(i)] = r.gas]
       /\ write_log' = r.write_log
       /\ UNCHANGED <<pc, runner, inst, evalStack, gas, gasLimit, exceededAt,
                      steps, storage, pre, verifiers, inserted, iterators, ret,
                      lastEval, lateHostCalls, result, runs, routerVars, mmVars, rpcVars>>

ParStart(i) ==
    /\ vps[i].result = NoResult
    /\ vps[i].ip = 0
    /\ ParApply(i)

ParHostCall(i) ==
    /\ vps[i].result = NoResult
    /\ vps[i].ip \in 1..Len(vps[i].prog)
    /\ ParApply(i)

ParReturn(i) ==
    /\ vps[i].result = NoResult
    /\ vps[i].ip = Len(vps[i].prog) + 1
    /\ ParApply(i)

\* The VP phase: a snapshot of storage and write log, and one invocation per
\* thread, each with its module and the ceiling of its meter.
InitVp ==
    /\ pc = "idle"
    /\ runner = "VP"
    /\ inst = NewInstance(BaseModule)
    /\ evalStack = <<>>
    /\ gas = 0
    /\ gasLimit = SmallGasLimit
    /\ exceededAt = -1
    /\ steps = 0
    /\ storage = [k \in Keys |-> IF k = 1 THEN "a" ELSE "absent"]
    /\ write_log \in {[k \in Keys |-> "absent"],
                      [k \in Keys |-> IF k = ParKey THEN "deleted"
                                                    ELSE "absent"]}
    /\ pre = [storage |-> storage, write_log |-> write_log]
    /\ verifiers = {}
    /\ inserted = {}
    /\ iterators = NoIterators
    /\ ret = -1
    /\ lastEval = "none"
    /\ lateHostCalls = 0
    /\ result = NoResult
    /\ runs = 0
    /\ vps \in [VpIds -> {NewVp(p, l) : p \in VpPrograms, l \in VpLimits}]
    /\ meters = [i \in VpIds |-> 0]
    /\ routerPc = "idle"
    /\ request = NoRequest
    /\ response = NoResponse
    /\ mm = NoMatchmaker
    /\ chan = NewChannel
    /\ p2p = NewP2P

NextVp ==
    \/ \E i \in VpIds : ParStart(i)
    \/ \E i \in VpIds : ParHostCall(i)
    \/ \E i \in VpIds : ParReturn(i)

SpecVp == InitVp /\ [][NextVp]_vars

\* The invocation v run to its end with nothing else running.
RECURSIVE VpAlone(_, _, _, _)
VpAlone(v, g, st, wl) ==
    IF v.result # NoResult THEN [vp |-> v, gas |-> g]
    ELSE LET r == VpStep(v, g, st, wl)
         IN VpAlone(r.vp, r.gas, st, r.write_log)

----------------------------------------------------------------------------
(* The matchmaker channel.  MatchmakerRunner::run is given the Sender of a *)
(* tokio mpsc channel and hands it to the imports; the host calls          *)
(* send_match, update_data and remove_intents send a Match, an Update or a *)
(* Remove message on it.  The Receiver is with the gossip node, which      *)
(* passes every message it receives to handle_mm_message.  A guest program *)
(* is the sequence of the messages its host calls send; a message carries  *)
(* the number of the invocation and its place in the program.              *)

MessageKinds == {"Match", "Update", "Remove"}

RECURSIVE MmProgramsUpTo(_)
MmProgramsUpTo(n) ==
    IF n = 0 THEN {<<>>}
    ELSE LET shorter == MmProgramsUpTo(n - 1)
         IN shorter \cup {Append(p, k) : p \in shorter, k \in MessageKinds}

MmPrograms == MmProgramsUpTo(MaxMsgs)

\* Faulty variant of Enqueue: the message is put in front of the others.
Enqueue_front(queue, msg) == <<msg>> \o queue

\* The channel is a queue: a message sent is put behind those not yet
\* received.
Enqueue(queue, msg) == Append(queue, msg)

\* What a send makes of the channel: a fatal error when the consumer has
\* closed its end; nothing yet (the sender waits) while the channel is
\* full; the message queued otherwise.
SendOutcome(ch, msg) ==
    IF ch.closed THEN [status |-> "fatal", chan |-> ch]
    ELSE IF Len(ch.queue) >= ChanCap THEN [status |-> "blocked", chan |-> ch]
    ELSE [status |-> "sent",
          chan |-> [ch EXCEPT !.queue = Enqueue(@, msg)]]

\* MatchmakerRunner::run is called with the Sender.
MmStart(prog) ==
    /\ mm.pc = "idle"
    /\ Len(mm.sent) + Len(prog) <= MaxMsgs
    /\ mm' = [pc |-> "running", prog |-> prog, sent |-> mm.sent]
    /\ UNCHANGED <<chan, vmVars, parVars, routerVars, rpcVars>>

\* A host call of the guest sends the next message of the program.
MmSend ==
    /\ mm.pc = "running"
    /\ mm.prog # <<>>
    /\ LET msg == [kind |-> Head(mm.prog), n |-> Len(mm.sent) + 1]
           r == SendOutcome(chan, msg)
       IN /\ r.status # "blocked"
          /\ chan' = r.chan
          /\ mm' = IF r.status = "fatal" THEN [mm EXCEPT !.pc = "fatal"]
                   ELSE [mm EXCEPT !.prog = Tail(@),
                                   !.sent = Append(@, msg)]
    /\ UNCHANGED <<vmVars, parVars, routerVars, rpcVars>>

\* The entrypoint returns and so does run; the runner can be called again.
MmReturn ==
    /\ mm.pc = "running"
    /\ mm.prog = <<>>
    /\ mm' = [mm EXCEPT !.pc = "idle"]
    /\ UNCHANGED <<chan, vmVars, parVars, routerVars, rpcVars>>

\* The node receives the next message and gives it to handle_mm_message.
handle_mm_message ==
    /\ chan.queue # <<>>
    /\ chan' = [chan EXCEPT !.queue = Tail(@),
                            !.delivered = Append(@, Head(chan.queue))]
    /\ UNCHANGED <<mm, vmVars, parVars, routerVars, rpcVars>>

\* The consumer closes its end: the Receiver is dropped with what it holds.
ConsumerClose ==
    /\ ~chan.closed
    /\ chan' = [chan EXCEPT !.closed = TRUE, !.queue = <<>>]
    /\ UNCHANGED <<mm, vmVars, parVars, routerVars, rpcVars>>

NextMm ==
    \/ \E prog \in MmPrograms : MmStart(prog)
    \/ MmSend
    \/ MmReturn
    \/ handle_mm_message
    \/ ConsumerClose

SpecMm == Init /\ [][NextMm]_vars

----------------------------------------------------------------------------
(* The rpc events of the gossip node.  P2P::handle_rpc_event is given one  *)
(* rpc_message::Message and returns one RpcResponse.  The message is an    *)
(* Intent (an optional intent and a topic), a Dkg or a Topic (a topic to   *)
(* subscribe to).  The intent broadcaster application (apply_intent) and   *)
(* the gossipsub behaviour (publish, subscribe) are given by what they     *)
(* return: the handler branches on nothing else.                           *)

\* The messages the rpc server hands over: an Intent with or without an
\* intent, a Dkg, a Topic.  An absent intent is "None".
RpcEvents ==
    LET Topics == {"asset_v1", "other"}
        Intents == {"intent", "None"}
    IN {[kind |-> "Intent", intent |-> i, topic |-> t] :
            i \in Intents, t \in Topics}
       \cup {[kind |-> "Dkg", intent |-> "None", topic |-> ""]}
       \cup {[kind |-> "Topic", intent |-> "None", topic |-> t] : t \in Topics}

\* apply_intent is called in the arm of an Intent message with Some(intent).
ApplyCalled(event) == event.kind = "Intent" /\ event.intent # "None"

\* What apply_intent can return.
ApplyResults(event) ==
    IF ApplyCalled(event) THEN {"Ok(true)", "Ok(false)", "Err"}
    ELSE {"not called"}

\* Faulty variant of PublishCalled: the intent is published whatever
\* apply_intent returned.
PublishCalled_always(event, applied) == ApplyCalled(event)

\* publish is called in the arm Ok(true) of apply_intent.
PublishCalled(event, applied) == ApplyCalled(event) /\ applied = "Ok(true)"

\* What publish can return: the MessageId or a PublishError.
PublishResults(event, applied) ==
    IF PublishCalled(event, applied) THEN {"Ok", "Err"} ELSE {"not called"}

\* What subscribe can return: Ok(true) for a new subscription, Ok(false)
\* when the node is subscribed to the topic already, or a SubscriptionError.
SubscribeResults(event, subscribed) ==
    IF event.kind # "Topic" THEN {"not called"}
    ELSE IF event.topic \in subscribed THEN {"Ok(false)"}
    ELSE {"Ok(true)", "Err"}

\* The result of the RpcResponse of each arm.
RpcResponse(event, applied, published, subscribed) ==
    CASE event.kind = "Intent" /\ event.intent = "None" ->
             "rpc intent command is empty"
      [] event.kind = "Intent" /\ applied = "Ok(true)" /\ published = "Ok" ->
             "Intent sent correctly"
      [] event.kind = "Intent" /\ applied = "Ok(true)" ->
             "Failed to publish_intent"
      [] event.kind = "Intent" /\ applied = "Ok(false)" ->
             "Failed to apply the intent"
      [] event.kind = "Intent" -> "Failed to apply the intent: error"
      [] event.kind = "Dkg" -> "DKG application not yet implemented"
      [] event.kind = "Topic" /\ subscribed = "Ok(true)" ->
             "Node subscribed"
      [] event.kind = "Topic" /\ subscribed = "Ok(false)" ->
             "Node already subscribed"
      [] OTHER -> "failed to subscribe"

\* P2P::handle_rpc_event.  A handled event is logged with what the calls of
\* its arm returned; a published intent is on the gossip with its topic and
\* the number of its event.
handle_rpc_event(event, applied, published, subscribed) ==
    /\ Len(p2p.events) < MaxEvents
    /\ applied \in ApplyResults(event)
    /\ published \in PublishResults(event, applied)
    /\ subscribed \in SubscribeResults(event, p2p.subscribed)
    /\ p2p' =
           [events |->
                Append(p2p.events,
                       [event |-> event, applied |-> applied,
                        published |-> published, subscribed |-> subscribed]),
            gossip |->
                IF published = "Ok"
                THEN Append(p2p.gossip,
                            [topic |-> event.topic, intent |-> event.intent,
                             n |-> Len(p2p.events) + 1])
                ELSE p2p.gossip,
            responses |->
                Append(p2p.responses,
                       RpcResponse(event, applied, published, subscribed)),
            subscribed |->
                IF subscribed = "Ok(true)"
                THEN p2p.subscribed \cup {event.topic}
                ELSE p2p.subscribed]
    /\ UNCHANGED <<vmVars, parVars, routerVars, mmVars>>

NextRpc ==
    \E event \in RpcEvents :
        \E applied, published, subscribed \in
                {"Ok(true)", "Ok(false)", "Ok", "Err", "not called"} :
            handle_rpc_event(event, applied, published, subscribed)

SpecRpc == Init /\ [][NextRpc]_vars


----------------------------------------------------------------------------
(* The query router of shared/src/ledger/queries/router.rs.  A path is a   *)
(* Rust string: the sequence of its bytes, one byte a one-character name.  *)
(* LeadByte followed by ContByte is a character that takes two bytes;      *)
(* every other byte is a character of its own.  An index into a string     *)
(* counts bytes from 0, as in the source.                                  *)

LeadByte == "C3"
ContByte == "A9"

DigitBytes == <<"0", "1", "2", "3", "4", "5", "6", "7", "8", "9">>

\* The strings of the alphabet are the valid UTF-8 ones: a ContByte follows
\* a LeadByte and nothing else does.
IsString(s) ==
    \A i \in 1..Len(s) :
        /\ s[i] = LeadByte => (i < Len(s) /\ s[i + 1] = ContByte)
        /\ s[i] = ContByte => (i > 1 /\ s[i - 1] = LeadByte)

IsCharBoundary(s, i) ==
    \/ i = 0
    \/ i = Len(s)
    \/ (0 < i /\ i < Len(s) /\ s[i + 1] # ContByte)

\* &s[a..b] panics unless a <= b <= s.len() and both lie on a character
\* boundary; otherwise it is the bytes a .. b-1.
SliceOk(s, a, b) ==
    a <= b /\ b <= Len(s) /\ IsCharBoundary(s, a) /\ IsCharBoundary(s, b)

Slice(s, a, b) == SubSeq(s, a + 1, b)

\* Faulty variant of find_next_slash_index: the offset of the starting
\* position is not added to the index found.
find_next_slash_index_noOffset(path, start) ==
    LET found == {i \in start..(Len(path) - 1) : path[i + 1] = "/"}
    IN IF found = {} THEN Len(path)
       ELSE (CHOOSE i \in found : \A j \in found : i <= j) - start

\* Called with SliceOk(path, start, Len(path)): path[start..] panics
\* otherwise.
find_next_slash_index(path, start) ==
    LET found == {i \in start..(Len(path) - 1) : path[i + 1] = "/"}
    IN IF found = {} THEN Len(path)
       ELSE CHOOSE i \in found : \A j \in found : i <= j

\* A call of find_next_slash_index: path[start..] panics when start is past
\* the end of the path or inside a character, and the index is returned
\* otherwise.
FindNextSlash(path, start) ==
    IF SliceOk(path, start, Len(path))
    THEN [k |-> "return", index |-> find_next_slash_index(path, start)]
    ELSE [k |-> "panic", index |-> 0]

\* Display and FromStr of the types of the typed arguments (token::Amount,
\* Epoch): a value is a natural number, printed in decimal; a string parses
\* when it is one or more decimal digits.
RECURSIVE to_string(_)
to_string(n) ==
    IF n < 10 THEN <<DigitBytes[n + 1]>>
    ELSE to_string(n \div 10) \o <<DigitBytes[(n % 10) + 1]>>

DigitValue(b) == (CHOOSE d \in 1..10 : DigitBytes[d] = b) - 1

ParseOk(s) ==
    s # <<>> /\ \A i \in 1..Len(s) : \E d \in 1..10 : DigitBytes[d] = s[i]

RECURSIVE parse(_)
parse(s) ==
    IF Len(s) = 1 THEN DigitValue(s[1])
    ELSE 10 * parse(SubSeq(s, 1, Len(s) - 1)) + DigitValue(s[Len(s)])

\* FromStr of storage::Key: a string that is not empty parses, into the
\* segments the "/" in it separate.
RECURSIVE KeySegments(_)
KeySegments(s) ==
    LET end == find_next_slash_index(s, 0)
    IN IF end = Len(s) THEN <<s>>
       ELSE <<SubSeq(s, 1, end)>>
                \o KeySegments(SubSeq(s, end + 2, Len(s)))

\* path[start..end].parse::<ty>(): whether it is Ok, and the value parsed.
ParseOkAs(ty, s) == IF ty = "Key" THEN s # <<>> ELSE ParseOk(s)
parse_as(ty, s) == IF ty = "Key" THEN KeySegments(s) ELSE parse(s)

\* The patterns of a router: a segment is a string literal, an untyped
\* argument, a typed argument or an optional typed argument; a handle is a
\* handler function, a handler with_options, a sub-router or a group of
\* sub-patterns.
Lit(s) == [t |-> "lit", s |-> s, ty |-> ""]
Untyped == [t |-> "untyped", s |-> <<>>, ty |-> ""]
Typed(ty) == [t |-> "typed", s |-> <<>>, ty |-> ty]
Opt(ty) == [t |-> "opt", s |-> <<>>, ty |-> ty]

Handler(name) ==
    [kind |-> "handler", name |-> name, router |-> "", children |-> <<>>]
WithOptions(name) ==
    [kind |-> "with_options", name |-> name, router |-> "",
     children |-> <<>>]
SubRouter(router) ==
    [kind |-> "sub", name |-> "", router |-> router, children |-> <<>>]
Group(children) ==
    [kind |-> "group", name |-> "", router |-> "", children |-> children]

Entry(pattern, handle) == [pattern |-> pattern, handle |-> handle]

\* The routers of the tests.
TEST_SUB_RPC ==
    << Entry(<<Lit(<<"x">>)>>, Handler("x")),
       Entry(<<Lit(<<"y">>), Untyped>>, Handler("y")),
       Entry(<<Lit(<<"z">>), Untyped>>, Handler("z")) >>

TEST_RPC ==
    << Entry(<<Lit(<<"s", "u", "b">>)>>, SubRouter("TEST_SUB_RPC")),
       Entry(<<Lit(<<"a">>)>>, Handler("a")),
       Entry(<<Lit(<<"b">>)>>, Group(<<
           Entry(<<Lit(<<"0">>)>>, Group(<<
               Entry(<<Lit(<<"i">>)>>, Handler("b0i")),
               Entry(<<Lit(<<"i", "i">>)>>, Handler("b0ii")) >>)),
           Entry(<<Lit(<<"1">>)>>, Handler("b1")),
           Entry(<<Lit(<<"2">>)>>, Group(<<
               Entry(<<Lit(<<"i">>), Typed("Amount")>>, Handler("b2i")) >>)),
           Entry(<<Lit(<<"3">>), Typed("Amount"), Typed("Amount")>>, Group(<<
               Entry(<<Lit(<<"i">>), Typed("Amount")>>, Handler("b3i")),
               Entry(<<Typed("Amount")>>, Handler("b3")),
               Entry(<<Typed("Amount"), Lit(<<"i", "i">>)>>,
                     Handler("b3ii")),
               Entry(<<Opt("Amount"), Lit(<<"i", "i", "i">>)>>,
                     Handler("b3iii")),
               Entry(<<Lit(<<"i", "i", "i", "i">>), Opt("Amount"),
                       Lit(<<"x", "y", "z">>), Opt("Epoch")>>,
                     Handler("b3iiii")) >>)) >>)),
       Entry(<<Lit(<<"c">>)>>, WithOptions("c")) >>

\* A router whose patterns share their beginnings: a path that matches
\* the second also matches the first, a handler that returns an error is
\* followed by a pattern of the same path, a typed argument at the end of
\* a pattern is parsed as an Amount and as a storage::Key, and a group and
\* a sub-router are followed by patterns that begin as they do.
ORDER_RPC ==
    << Entry(<<Lit(<<"p">>), Untyped>>, Handler("first")),
       Entry(<<Lit(<<"p">>), Lit(<<"q">>)>>, Handler("second")),
       Entry(<<Lit(<<"e">>)>>, Handler("fails")),
       Entry(<<Lit(<<"e">>)>>, Handler("after")),
       Entry(<<Lit(<<"r">>), Typed("Key")>>, WithOptions("raw")),
       Entry(<<Lit(<<"k">>), Typed("Amount")>>, Handler("amount")),
       Entry(<<Lit(<<"k">>), Typed("Key")>>, Handler("key")),
       Entry(<<Lit(<<"g">>)>>, Group(<<
           Entry(<<Lit(<<"x">>)>>, Handler("gx")) >>)),
       Entry(<<Lit(<<"g">>), Lit(<<"y">>)>>, Handler("gy")),
       Entry(<<Lit(<<"s">>)>>, SubRouter("TEST_SUB_RPC")),
       Entry(<<Lit(<<"s">>), Lit(<<"w">>)>>, Handler("sw")) >>

Routers(name) ==
    CASE name = "TEST_RPC" -> TEST_RPC
      [] name = "TEST_SUB_RPC" -> TEST_SUB_RPC
      [] name = "ORDER_RPC" -> ORDER_RPC

\* The options of a request besides its path: the height asked for (0 asks
\* for the latest), whether a proof is asked for, and the data sent.
DefaultOptions == [height |-> 0, prove |-> FALSE, data |-> <<>>]
RequestOptions ==
    { DefaultOptions,
      [DefaultOptions EXCEPT !.height = LastHeight],
      [DefaultOptions EXCEPT !.height = LastHeight + 1],
      [DefaultOptions EXCEPT !.prove = TRUE],
      [DefaultOptions EXCEPT !.data = <<1>>],
      [height |-> LastHeight + 1, prove |-> TRUE, data |-> <<1>>] }

\* What internal_handle returns.  An Ok response has the data, the info and
\* the proof of an EncodedResponseQuery; handler and args tell which
\* handler was invoked, and with which arguments, if one was.
borsh(value) == <<"borsh", value>>
RouterOk(name, args) ==
    [kind |-> "Ok", handler |-> name, args |-> args, err |-> "",
     path |-> <<>>, data |-> borsh(<<name, args>>), info |-> "",
     proof |-> FALSE]
RouterErr(name, args, err) ==
    [kind |-> "Err", handler |-> name, args |-> args, err |-> err,
     path |-> <<>>, data |-> <<>>, info |-> "", proof |-> FALSE]
WrongPath(path) ==
    [kind |-> "Err", handler |-> "", args |-> <<>>, err |-> "WrongPath",
     path |-> path, data |-> <<>>, info |-> "", proof |-> FALSE]

\* The handler functions.  Those of the tests return Ok with their name
\* and their arguments; c returns a response it has encoded itself.  Of
\* those of ORDER_RPC, fails returns an error, and raw returns the data of
\* the request as it is, with an info and with the proof that was asked
\* for, or an error for a height that is not there.
HandlerOk(value) == [ok |-> TRUE, value |-> value, err |-> ""]
HandlerErr(err) == [ok |-> FALSE, value |-> <<>>, err |-> err]
CallHandler(name, args, req) ==
    CASE name = "fails" -> HandlerErr("handler")
      [] name = "raw" ->
             IF req.height > LastHeight THEN HandlerErr("handler")
             ELSE HandlerOk([data |-> req.data, info |-> "raw",
                             proof |-> req.prove])
      [] name = "c" ->
             HandlerOk([data |-> borsh(<<name, args>>), info |-> "",
                        proof |-> FALSE])
      [] OTHER -> HandlerOk(<<name, args>>)

\* Faulty variant of RequestCheck: no request is rejected.
RequestCheck_none(req) == ""

\* The checks of the request made before a handler without with_options:
\* the first that fails gives the error.
RequestCheck(req) ==
    IF req.height # 0 /\ req.height # LastHeight THEN "InvalidHeight"
    ELSE IF req.prove THEN "NoProof"
    ELSE IF req.data # <<>> THEN "NoData"
    ELSE ""

\* How the attempt to match one pattern ends: by break (not matched, the
\* next pattern is tried), by return, by a panic, or never, when the loop
\* the attempt runs in repeats without end.
Break == [k |-> "break", resp |-> NoResponse]
Returned(resp) == [k |-> "return", resp |-> resp]
Panic == [k |-> "panic", resp |-> NoResponse]
Loops == [k |-> "loops", resp |-> NoResponse]

\* handle_match of a handler: the pattern is matched when end is the end of
\* the path, or only a trailing "/" is left.
AtEnd(path, end) ==
    \/ end = Len(path)
    \/ (end = Len(path) - 1 /\ Slice(path, end, Len(path)) = <<"/">>)

\* handle_match of a handler, at the end of the path.  A handler
\* with_options gets the request, and what it returns is returned.  Before
\* any other handler the request is checked; the value the handler returns
\* is encoded with borsh.  An error returns from internal_handle.
handle_match(handle, args, req) ==
    IF handle.kind = "with_options"
    THEN LET res == CallHandler(handle.name, args, req)
         IN IF ~res.ok
            THEN Returned(RouterErr(handle.name, args, res.err))
            ELSE Returned([kind |-> "Ok", handler |-> handle.name,
                           args |-> args, err |-> "", path |-> <<>>,
                           data |-> res.value.data,
                           info |-> res.value.info,
                           proof |-> res.value.proof])
    ELSE IF RequestCheck(req) # ""
    THEN Returned(RouterErr("", <<>>, RequestCheck(req)))
    ELSE LET res == CallHandler(handle.name, args, req)
         IN IF ~res.ok
            THEN Returned(RouterErr(handle.name, args, res.err))
            ELSE Returned([kind |-> "Ok", handler |-> handle.name,
                           args |-> args, err |-> "", path |-> <<>>,
                           data |-> borsh(res.value), info |-> "",
                           proof |-> FALSE])

\* The value of an optional typed argument: Some(parsed), written
\* <<parsed>>, when the segment parses, and None, written <<>>, when not.
\* In the faulty variant it is always None.
OptionalArg_none(ty, s) == <<>>

OptionalArg(ty, s) ==
    IF ParseOkAs(ty, s) THEN <<parse_as(ty, s)>> ELSE <<>>

\* Where the string parsed for a typed argument ends: at the end of the
\* path when the argument is the last element of the pattern of a handler,
\* and at the end of the segment otherwise.  In the faulty variant it is
\* always the end of the segment.
ParsedTo_segment(rest, path, end) == end

ParsedTo(rest, path, end) == IF rest THEN Len(path) ELSE end

RECURSIVE try_match_segments(_, _, _, _, _, _)
RECURSIVE try_sub_patterns(_, _, _, _, _)
RECURSIVE internal_handle(_, _, _)

\* Where start stands after a matched segment that ends at end: past the
\* "/" there, when the path goes on after it, and at end otherwise.
advance_past_slash(path, end) ==
    IF end + 1 < Len(path) THEN end + 1 ELSE end

\* The index is moved past the matched segment and the "/" after it, if
\* any, and the next segment is looked for.
NextSegment(handle, tail, req, end, args) ==
    LET path == req.path
        start == advance_past_slash(path, end)
    IN IF ~SliceOk(path, start, Len(path)) THEN Panic
       ELSE try_match_segments(handle, tail, req, start,
                               find_next_slash_index(path, start), args)

\* A group of sub-patterns: each is tried in a loop of its own.  When none
\* returned, control reaches the end of the body of the loop the group
\* itself is tried in, and that loop repeats, from the same start.
try_sub_patterns(entries, req, start, end, args) ==
    IF entries = <<>> THEN Loops
    ELSE LET r == try_match_segments(entries[1].handle, entries[1].pattern,
                                     req, start, end, args)
         IN IF r.k = "break"
            THEN try_sub_patterns(Tail(entries), req, start, end, args)
            ELSE r

try_match_segments(handle, segments, req, start, end, args) ==
    LET path == req.path
    IN
    IF segments = <<>>
    THEN CASE handle.kind = "group" ->
                  try_sub_patterns(handle.children, req, start, end, args)
           [] handle.kind = "sub" ->
                  IF start = 0 THEN Panic
                  ELSE internal_handle(Routers(handle.router), req,
                                       start - 1)
           [] OTHER ->
                  IF end = Len(path) - 1 /\ ~SliceOk(path, end, Len(path))
                  THEN Panic
                  ELSE IF AtEnd(path, end)
                  THEN handle_match(handle, args, req)
                  ELSE Break
    ELSE LET seg == Head(segments)
             tail == Tail(segments)
             rest == tail = <<>> /\ seg.t = "typed"
                     /\ handle.kind \in {"handler", "with_options"}
             to == ParsedTo(rest, path, end)
         IN IF ~SliceOk(path, start, to) THEN Panic
            ELSE LET s == Slice(path, start, to)
                 IN CASE seg.t = "lit" ->
                             IF s = seg.s
                             THEN NextSegment(handle, tail, req, end, args)
                             ELSE Break
                      [] seg.t = "untyped" ->
                             NextSegment(handle, tail, req, end,
                                     Append(args, s))
                      [] seg.t = "opt" ->
                             IF ParseOkAs(seg.ty, s)
                             THEN NextSegment(handle, tail, req, end,
                                      Append(args, OptionalArg(seg.ty, s)))
                             ELSE try_match_segments(handle, tail, req,
                                      start, end,
                                      Append(args, OptionalArg(seg.ty, s)))
                      [] seg.t = "typed" /\ rest ->
                             IF ParseOkAs(seg.ty, s)
                             THEN try_match_segments(handle, <<>>, req,
                                      start, to,
                                      Append(args, parse_as(seg.ty, s)))
                             ELSE Break
                      [] seg.t = "typed" /\ ~rest ->
                             IF ParseOkAs(seg.ty, s)
                             THEN NextSegment(handle, tail, req, end,
                                      Append(args, parse_as(seg.ty, s)))
                             ELSE Break

\* try_match of one pattern of a router, from the index start.
try_match(entry, req, start) ==
    LET path == req.path
    IN IF path = <<>> THEN Break
       ELSE IF ~SliceOk(path, 0, 1) THEN Panic
       ELSE IF Slice(path, 0, 1) # <<"/">> THEN Break
       ELSE IF start + 1 >= Len(path) THEN Break
       ELSE IF ~SliceOk(path, start + 1, Len(path)) THEN Panic
       ELSE try_match_segments(entry.handle, entry.pattern, req, start + 1,
                               find_next_slash_index(path, start + 1),
                               <<>>)

\* The patterns of the router are tried in the order they are written;
\* when every one of them broke, the path is wrong.
internal_handle(router, req, start) ==
    IF router = <<>> THEN Returned(WrongPath(req.path))
    ELSE LET r == try_match(router[1], req, start)
         IN IF r.k = "break"
            THEN internal_handle(Tail(router), req, start)
            ELSE r

\* Router::handle, on the router the request is made to.
handle(req) == internal_handle(Routers(req.router), req, 0)

\* itertools::join of the strings of items with "/" between them.
RECURSIVE Join(_)
Join(items) ==
    IF items = <<>> THEN <<>>
    ELSE IF Len(items) = 1 THEN items[1]
    ELSE items[1] \o <<"/">> \o Join(Tail(items))

\* The methods router_type! generates: one for every handler, with the
\* pattern of the handler joined to the patterns of the groups around it
\* and the prefix of the router that has the method.  The prefix of a root
\* router is the empty string; the prefix of a sub-router is the prefix of
\* its parent and the literals of its pattern, joined with "/".
RECURSIVE Methods(_, _, _)
Methods(entries, segments, prefix) ==
    IF entries = <<>> THEN <<>>
    ELSE LET e == entries[1]
             pattern == segments \o e.pattern
             here ==
                 CASE e.handle.kind = "group" ->
                          Methods(e.handle.children, pattern, prefix)
                   [] e.handle.kind = "sub" ->
                          Methods(Routers(e.handle.router), <<>>,
                                  Join(<<prefix>> \o
                                       [i \in 1..Len(pattern) |->
                                           pattern[i].s]))
                   [] OTHER ->
                          <<[handler |-> e.handle.name,
                             segments |-> pattern, prefix |-> prefix]>>
         IN here \o Methods(Tail(entries), segments, prefix)

TestMethods == Methods(TEST_RPC, <<>>, <<>>)
Handlers == {TestMethods[i].handler : i \in 1..Len(TestMethods)}
MethodOf(name) ==
    TestMethods[CHOOSE i \in 1..Len(TestMethods) :
                    TestMethods[i].handler = name]

\* The strings <handler>_path joins after the prefix: a literal, the
\* argument of an untyped or a typed segment, and the argument of an
\* optional segment when it is Some.  An optional argument is <<>> for
\* None and <<v>> for Some(v).
RECURSIVE PathItems(_, _)
PathItems(segments, args) ==
    IF segments = <<>> THEN <<>>
    ELSE LET seg == Head(segments)
         IN CASE seg.t = "lit" ->
                     <<seg.s>> \o PathItems(Tail(segments), args)
              [] seg.t = "untyped" ->
                     <<Head(args)>> \o PathItems(Tail(segments), Tail(args))
              [] seg.t = "typed" ->
                     <<to_string(Head(args))>>
                         \o PathItems(Tail(segments), Tail(args))
              [] seg.t = "opt" ->
                     (IF Head(args) = <<>> THEN <<>>
                      ELSE <<to_string(Head(args)[1])>>)
                         \o PathItems(Tail(segments), Tail(args))

handler_path(name, args) ==
    LET m == MethodOf(name)
    IN Join(<<m.prefix>> \o PathItems(m.segments, args))

\* The arguments the requests are made with.
TypedValues == {9 * v : v \in 0..MaxArg}
UntypedValues ==
    {<<>>, <<"i">>, <<"x">>, <<"t", "1">>, <<LeadByte, ContByte>>}

RECURSIVE ArgTuples(_)
ArgTuples(segments) ==
    IF segments = <<>> THEN {<<>>}
    ELSE LET seg == Head(segments)
             rest == ArgTuples(Tail(segments))
             here == CASE seg.t = "untyped" -> UntypedValues
                       [] seg.t = "typed" -> TypedValues
                       [] seg.t = "opt" ->
                              {<<>>} \cup {<<v>> : v \in TypedValues}
                       [] OTHER -> {}
         IN IF seg.t = "lit" THEN rest
            ELSE {<<a>> \o r : a \in here, r \in rest}

MethodPaths ==
    {handler_path(h, args) : <<h, args>> \in
        UNION {{<<n, a>> : a \in ArgTuples(MethodOf(n).segments)} :
               n \in Handlers}}

\* The paths of the requests made without the methods: every short string,
\* the path "/invalid" of the tests, and the paths of the methods cut short
\* or followed by a "/".
RawBytes == {"/", "b", "1", LeadByte, ContByte}

RECURSIVE StringsUpTo(_)
StringsUpTo(n) ==
    IF n = 0 THEN {<<>>}
    ELSE LET shorter == StringsUpTo(n - 1)
         IN shorter \cup {Append(s, b) : s \in shorter, b \in RawBytes}

RawPaths ==
    {s \in StringsUpTo(MaxRawLen) : IsString(s)}
        \cup {<<"/", "i", "n", "v", "a", "l", "i", "d">>}
        \cup {s \in UNION {{SubSeq(p, 1, n) : n \in 0..Len(p)} :
                             p \in MethodPaths} : IsString(s)}
        \cup {p \o <<"/">> : p \in MethodPaths}

\* The paths requested of ORDER_RPC.
OrderPaths ==
    LET paths == { <<"/", "p", "/", "q">>, <<"/", "p", "/", "x">>,
                   <<"/", "p">>, <<"/", "e">>, <<"/", "r">>,
                   <<"/", "r", "/", "x">>, <<"/", "r", "/", "x", "/", "1">>,
                   <<"/", "k">>, <<"/", "k", "/", "9">>,
                   <<"/", "k", "/", "x">>, <<"/", "k", "/", "9", "/", "x">>,
                   <<"/", "g", "/", "x">>, <<"/", "g", "/", "y">>,
                   <<"/", "s", "/", "x">>, <<"/", "s", "/", "w">>,
                   <<"/", "q">> }
    IN paths \cup {p \o <<"/">> : p \in paths}

PathsOf(router) ==
    IF router = "TEST_RPC" THEN RawPaths ELSE OrderPaths

\* The options a path is requested with: every one of RequestOptions for
\* the paths of ORDER_RPC and for the paths of the handlers of TEST_RPC
\* that have one argument at most, and none for the other paths.
OptionsOf(path) ==
    LET few == {name \in Handlers :
                   Len(SelectSeq(MethodOf(name).segments,
                                 LAMBDA seg : seg.t # "lit")) <= 1}
        paths == UNION {{handler_path(name, args) :
                            args \in ArgTuples(MethodOf(name).segments)} :
                        name \in few}
    IN IF path \in OrderPaths \cup paths THEN RequestOptions
       ELSE {DefaultOptions}

\* A client asks for the path of a handler and requests it, with no
\* options.
MethodRequest(name, args) ==
    /\ routerPc = "idle"
    /\ routerPc' = "requested"
    /\ request' = [path |-> handler_path(name, args), handler |-> name,
                   args |-> args, router |-> "TEST_RPC",
                   height |-> DefaultOptions.height,
                   prove |-> DefaultOptions.prove,
                   data |-> DefaultOptions.data]
    /\ UNCHANGED <<response, vmVars, parVars, mmVars, rpcVars>>

\* A client requests a path of its own of a router, with options.
RawRequest(router, path, options) ==
    /\ routerPc = "idle"
    /\ routerPc' = "requested"
    /\ request' = [path |-> path, handler |-> "", args |-> <<>>,
                   router |-> router, height |-> options.height,
                   prove |-> options.prove, data |-> options.data]
    /\ UNCHANGED <<response, vmVars, parVars, mmVars, rpcVars>>

\* Router::handle on the request: it returns, or panics, or never returns.
RouterHandle ==
    /\ routerPc = "requested"
    /\ LET r == handle(request)
       IN /\ routerPc' = CASE r.k = "return" -> "returned"
                           [] r.k = "panic" -> "panicked"
                           [] r.k = "loops" -> "looping"
          /\ response' = r.resp
    /\ UNCHANGED <<request, vmVars, parVars, mmVars, rpcVars>>

NextRouter ==
    \/ \E name \in Handlers :
           \E args \in ArgTuples(MethodOf(name).segments) :
               MethodRequest(name, args)
    \/ \E router \in {"TEST_RPC", "ORDER_RPC"} :
           \E path \in PathsOf(router) :
               \E options \in OptionsOf(path) :
                   RawRequest(router, path, options)
    \/ RouterHandle

SpecRouter == Init /\ [][NextRouter]_vars

----------------------------------------------------------------------------
(* Properties *)

Range(s) == {s[i] : i \in DOMAIN s}
IsPrefix(s, t) == Len(s) <= Len(t) /\ SubSeq(t, 1, Len(s)) = s

\* The stage order the runners are said to share.
FullOrder ==
    <<"validate", "prepare", "compile", "memory", "instantiate",
      "get_memory", "write_inputs", "get_entry", "call">>

TopLevel == evalStack = <<>> /\ pc # "idle"
Entered == "call" \in Range(inst.stages)

\* C1: in every run of each of the four runners the stages passed so far
\* are an initial part of validate, prepare, compile, memory, instantiate,
\* get_memory, write_inputs, get_entry, call; so the entrypoint is called
\* only on bytes that were validated and then instrumented.
C1_StageOrder ==
    TopLevel => IsPrefix(inst.stages, FullOrder)

\* C2: the mask disables the ten forbidden features and enables
\* deterministic_only, and every run that applies validate_untrusted_wasm to
\* a module using a forbidden feature ends with ValidationError.
C2_ValidationSoundness ==
    /\ \A f \in ForbiddenFeatures : ~WasmFeatures[f]
    /\ WasmFeatures.deterministic_only
    /\ (/\ TopLevel
        /\ "validate" \in Range(PipelineOf(runner, FALSE))
        /\ pc # "validate"
        /\ inst.module.features \cap ForbiddenFeatures # {})
       => pc = "done" /\ result = Err("ValidationError")

C2_Witness ==
    /\ pc = "done"
    /\ runner = "F"
    /\ inst.module.features = {"memory64"}
    /\ result = Err("ValidationError")

C4_StackLimitEnforced ==
    (/\ pc = "done"
     /\ Entered
     /\ inst.module.body.kind = "loop"
     /\ LoopHeight(LoopCalls(inst.module.body.n)) > WASM_STACK_LIMIT)
    => result = RuntimeError("UnreachableCodeReached")

C6_VpReadOnly ==
    (runner = "VP" /\ pc # "idle")
    => storage = pre.storage /\ write_log = pre.write_log

C6_Witness ==
    /\ pc = "done"
    /\ runner = "VP"
    /\ lastEval # "none"
    /\ steps >= 2
    /\ write_log[1] # "absent"
    /\ result.kind = "Ok"

\* C7: the set a Tx returns with Ok is the set of addresses passed to
\* insert_verifier in that invocation.
C7_VerifierAccumulation ==
    (pc = "done" /\ runner = "Tx" /\ result.kind = "Ok")
    => result.verifiers = inserted

C7_Witness ==
    /\ pc = "done"
    /\ runner = "Tx"
    /\ runs = 2
    /\ result.kind = "Ok"
    /\ inserted = {2}
    /\ result.verifiers = {2}

\* C8: when the entrypoint returned v, the VP returns Ok(v = 1) and the
\* matchmaker and the filter return Ok(v = 0).
C8_BooleanMapping ==
    (pc = "done" /\ ret # -1)
    => /\ runner = "VP" => result = OkBool(ret = 1)
       /\ runner \in {"MM", "F"} => result = OkBool(ret = 0)

C8_Witness ==
    /\ pc = "done"
    /\ runner = "MM"
    /\ ret = 0
    /\ result = OkBool(TRUE)

\* C9 as stated: a VP whose entrypoint returned a value other than 0 and 1
\* ends with UnexpectedModuleEntrypointInterface.
C9_Original ==
    (pc = "done" /\ runner = "VP" /\ ret \notin {-1, 0, 1})
    => result.err = "UnexpectedModuleEntrypointInterface"

\* C9 as amended: a VP whose entrypoint returned a value other than 0 and 1
\* ends with Ok(false), the verdict reject.
C9_OutOfRangeRejects ==
    (pc = "done" /\ runner = "VP" /\ ret \notin {-1, 0, 1})
    => result = OkBool(FALSE)

C9_Witness ==
    /\ pc = "done"
    /\ runner = "VP"
    /\ ret = 2
    /\ result = OkBool(FALSE)

\* The entry symbols as the claim names them.
C10_Entry ==
    [Tx |-> "_apply_tx", VP |-> "_validate_tx", MM |-> "_match_intent",
     F |-> "_validate_intent"]

\* C10: in a run that reached run_with_input, a module without the memory
\* export gives MissingModuleMemory; one with memory, its inputs written,
\* and without the runner's entry symbol gives MissingModuleEntrypoint; one
\* whose entry export has another signature gives
\* UnexpectedModuleEntrypointInterface naming the entrypoint; and in none of
\* the three is the entrypoint called.
C10_ExportChecks ==
    LET m == inst.module
        ep == C10_Entry[runner]
        noMemory == "memory" \notin m.exports
        noEntry == ep \notin m.exports
    IN /\ (TopLevel /\ (noMemory \/ noEntry \/ ~m.sig)) => ~Entered
       /\ (pc = "done" /\ "instantiate" \in Range(inst.stages))
          => /\ noMemory => result = Err("MissingModuleMemory")
             /\ (~noMemory /\ "write_inputs" \in Range(inst.stages)
                 /\ noEntry)
                => result = Err("MissingModuleEntrypoint")
             /\ (~noMemory /\ "write_inputs" \in Range(inst.stages)
                 /\ ~noEntry /\ ~m.sig)
                => result = UnexpectedModuleEntrypointInterface(ep)

C10_Witness ==
    /\ pc = "done"
    /\ runner = "F"
    /\ ~inst.module.sig
    /\ result = UnexpectedModuleEntrypointInterface("_validate_intent")

\* The kinds of Error.
ErrorKinds ==
    {"MemoryError", "StackLimiterInjection", "DeserializationError",
     "SerializationError", "GasMeterInjection", "CompileError",
     "MissingModuleMemory", "MissingModuleEntrypoint", "RuntimeError",
     "InstantiationError", "UnexpectedModuleEntrypointInterface",
     "ValidationError"}

\* C11: a Tx invocation passes each stage of TxRunner::run at most once and
\* in order; it has a result exactly when it has ended; the result is either
\* Ok(verifiers), given only after the entrypoint was called, or Err of one
\* kind of Error; and once it has ended nothing follows but the caller
\* taking the result.
C11_TxStateMachine ==
    /\ [](runner = "Tx" /\ pc # "idle"
          => /\ IsPrefix(inst.stages, TxRun)
             /\ (pc = "done") <=> (result # NoResult)
             /\ pc = "done"
                => \/ /\ result = OkVerifiers(result.verifiers)
                      /\ Entered
                   \/ /\ result.kind = "Err"
                      /\ result.err \in ErrorKinds
                      /\ result.verifiers = {})
    /\ [][runner = "Tx" /\ pc = "done" => pc' = "idle"]_vars

C11_Witness ==
    /\ runner = "Tx"
    /\ pc = "done"
    /\ result = RuntimeError("UnreachableCodeReached")
    /\ inst.stages = TxRun
    /\ inserted # {}

\* C12 as stated: when a Tx invocation has failed, its result carries no
\* verifier and the write log is what it was when run was called.
C12_Original ==
    (runner = "Tx" /\ pc = "done" /\ result.kind = "Err")
    => result.verifiers = {} /\ write_log = pre.write_log

\* C12 as amended: the result of a failed Tx invocation carries no verifier,
\* and the step by which run returns leaves the write log as the host calls
\* of the invocation left it: run undoes no write and no delete.
C12_FailedTxEffects ==
    /\ []((runner = "Tx" /\ pc = "done" /\ result.kind = "Err")
          => result.verifiers = {})
    /\ [][(runner = "Tx" /\ pc # "done" /\ pc' = "done")
          => write_log' = write_log]_vars

C12_Witness ==
    /\ runner = "Tx"
    /\ pc = "done"
    /\ result = RuntimeError("UnreachableCodeReached")
    /\ inserted # {}
    /\ pre.write_log[1] = "absent"
    /\ write_log[1] = "deleted"

\* The error kinds with which each stage of a run fails.
StageErrors(s) ==
    CASE s = "validate" -> {"ValidationError"}
      [] s = "prepare" -> {"DeserializationError", "GasMeterInjection",
                           "StackLimiterInjection", "SerializationError"}
      [] s = "compile" -> {"CompileError"}
      [] s = "memory" -> {"MemoryError"}
      [] s = "instantiate" -> {"InstantiationError"}
      [] s = "get_memory" -> {"MissingModuleMemory"}
      [] s = "write_inputs" -> {"MemoryError"}
      [] s = "get_entry" -> {"MissingModuleEntrypoint",
                             "UnexpectedModuleEntrypointInterface"}
      [] s = "call" -> {"RuntimeError"}

\* C13: a top-level VP invocation that ended before its entrypoint was
\* called returned Err with a kind of the stage that failed; one that ended
\* after the call returned Err(RuntimeError) unless the entrypoint returned;
\* and Ok(false) is returned only when the entrypoint returned a value other
\* than 1.
C13_VpFailureIsErr ==
    (runner = "VP" /\ pc = "done")
    => /\ IsPrefix(inst.stages, VpRun)
       /\ ~Entered
          => /\ result.kind = "Err"
             /\ result.err \in StageErrors(VpRun[Len(inst.stages) + 1])
       /\ (Entered /\ ret = -1) => result.kind = "Err"
                                   /\ result.err = "RuntimeError"
       /\ result = OkBool(FALSE) => Entered /\ ret \notin {-1, 1}
       /\ result.kind = "Ok" => result = OkBool(ret = 1)

C13_Witness ==
    /\ runner = "VP"
    /\ pc = "done"
    /\ inst.stages = <<"validate", "prepare", "compile", "memory">>
    /\ result = Err("InstantiationError")

Nested == evalStack # <<>>

\* C14: eval starts a fresh instance of the module it is given and keeps the
\* calling instance; while the nested run lasts, the environment (runner
\* table, storage, write log, verifiers, the meter's ceiling) is the
\* caller's and the meter only grows, so what the nested run consumes stays
\* charged when it ends; and when the nested run ends, the calling guest goes
\* on with the invocation still without a result, with the verdict reject
\* whenever the nested run ended at a stage before its entrypoint was called
\* or by a charge that passed the ceiling.
C14_NestedEval ==
    /\ [][Len(evalStack') > Len(evalStack)
          => /\ evalStack' = Append(evalStack, inst)
             /\ inst'.module \in EvalModules
             /\ inst' = NewInstance(inst'.module)]_vars
    /\ [][(Nested \/ Len(evalStack') > Len(evalStack))
          => /\ gas' >= gas
             /\ UNCHANGED <<runner, gasLimit, storage, write_log, verifiers>>
             /\ result' = NoResult]_vars
    /\ [][Len(evalStack') < Len(evalStack)
          => /\ pc' = "guest"
             /\ inst' = evalStack[Len(evalStack)]
             /\ (pc # "guest" \/ (gas' > gas /\ Exceeded(gas', gasLimit)))
                => lastEval' = "reject"]_vars
    /\ [](Nested => runner = "VP")

C14_Witness ==
    /\ runner = "VP"
    /\ pc = "guest"
    /\ evalStack = <<>>
    /\ lastEval = "reject"
    /\ exceededAt = 1
    /\ Exceeded(gas, gasLimit)

\* C15: a module handed to eval has passed validate_untrusted_wasm before it
\* is instrumented, compiled or run, so the guest of a nested run never uses
\* a forbidden feature.
C15_EvalValidated ==
    Nested
    => /\ inst.stages # <<>> => inst.stages[1] = "validate"
       /\ pc = "guest" => inst.module.features \cap ForbiddenFeatures = {}

\* C16: with several VP invocations interleaved on the same storage and
\* write log, these stay what they were when the invocations started, the
\* values each invocation has read are those it reads when run alone on that
\* snapshot, and each invocation that has ended has the result and the
\* meter value it has when run alone.
C16_ParallelVpNonInterference ==
    /\ storage = pre.storage
    /\ write_log = pre.write_log
    /\ \A i \in VpIds :
         LET alone == VpAlone(NewVp(vps[i].prog, vps[i].limit), 0,
                              pre.storage, pre.write_log)
         IN /\ IsPrefix(vps[i].seen, alone.vp.seen)
            /\ vps[i].result # NoResult
               => /\ vps[i].result = alone.vp.result
                  /\ vps[i].seen = alone.vp.seen
                  /\ meters[i] = alone.gas

C16_Witness ==
    /\ write_log[ParKey] = "deleted"
    /\ \E i, j \in VpIds :
         /\ i # j
         /\ vps[i].prog = <<"read_pre", "read_post">>
         /\ vps[i].seen = <<"a", "absent">>
         /\ vps[i].result = OkBool(FALSE)
         /\ meters[i] = Len(vps[i].prog)
         /\ vps[j].prog = <<"read_pre", "read_post">>
         /\ vps[j].result = RuntimeError("GasExceeded")
         /\ meters[j] = Len(vps[j].prog)

\* C17: every invocation that has started ends.
C17_Terminates == (pc # "idle" /\ pc # "done") ~> (pc = "done")

\* C18: in a run that validated its module and then called
\* prepare_wasm_code, with the outcomes of the four library calls recorded,
\* the prepare stage is passed exactly when all four succeeded, and the
\* module in hand is then the rewritten one, which calls the gas function;
\* otherwise the run ended with DeserializationError when the deserializer
\* failed, else GasMeterInjection when the gas counter could not be
\* injected, else StackLimiterInjection when the limiter could not, else
\* SerializationError.
C18_InstrumentationPreservation ==
    (TopLevel /\ inst.prep # <<>>)
    => LET deser == inst.prep[1]
           gasInj == inst.prep[2]
           limInj == inst.prep[3]
           ser == inst.prep[4]
       IN /\ inst.stages[1] = "validate"
          /\ validate_untrusted_wasm(inst.module) = "Ok"
          /\ ("prepare" \in Range(inst.stages))
                <=> (deser /\ gasInj /\ limInj /\ ser)
          /\ "prepare" \in Range(inst.stages) <=> inst.instrumented
          /\ "prepare" \notin Range(inst.stages)
             => /\ pc = "done"
                /\ result =
                     Err(IF ~deser THEN "DeserializationError"
                         ELSE IF ~gasInj THEN "GasMeterInjection"
                         ELSE IF ~limInj THEN "StackLimiterInjection"
                         ELSE "SerializationError")

C18_Witness ==
    /\ pc = "done"
    /\ runner = "F"
    /\ inst.prep = <<TRUE, FALSE, FALSE, TRUE>>
    /\ result = Err("GasMeterInjection")


\* C19: the path <handler>_path builds from an argument tuple is routed by
\* handle to that handler with those arguments: the call returns, and what
\* it returns is the result of that handler invoked with that tuple.
C19_RoundTrip ==
    (routerPc # "idle" /\ routerPc # "requested" /\ request.handler # "")
        => /\ routerPc = "returned"
           /\ response = RouterOk(request.handler, request.args)

\* A path with one optional argument present and the other left out has
\* been routed, and so has a path with an untyped argument.
C19_Witness ==
    /\ routerPc = "returned"
    /\ \/ /\ request.handler = "b3iiii"
          /\ request.args[3] # <<>>
          /\ request.args[4] = <<>>
          /\ response.handler = "b3iiii"
       \/ /\ request.handler = "y"
          /\ request.args = <<<<"t", "1">>>>
          /\ response.args = request.args

\* C20: a request whose path matches no pattern of the router gets the
\* error WrongPath with that path, and no handler is invoked: a call of
\* handle that invokes no handler returns WrongPath(path), and so does
\* every call with the empty path or a path that does not start with "/".
C20_WrongPath ==
    (routerPc # "idle" /\ routerPc # "requested")
        => /\ routerPc = "returned"
           /\ response.handler = "" => response = WrongPath(request.path)
           /\ (request.path = <<>> \/ Head(request.path) # "/")
                  => response = WrongPath(request.path)

\* C21: the trailing slash is optional at a terminal pattern: when a path
\* that does not end with "/" has been routed to a handler, the same path
\* followed by one "/" is routed to the same handler with the same
\* arguments, and followed by two it is routed to no handler.
C21_TrailingSlash ==
    (/\ routerPc = "returned"
     /\ response.kind = "Ok"
     /\ request.path[Len(request.path)] # "/")
        => /\ handle([request EXCEPT !.path = @ \o <<"/">>])
                  = Returned(response)
           /\ handle([request EXCEPT !.path = @ \o <<"/", "/">>]).resp.kind
                  # "Ok"

\* The checks of a run that can fail, each with the stage that makes it and
\* the kind of error it fails with, in the order they are said to be made.
ErrorOrder ==
    << <<"validate", "ValidationError">>,
       <<"prepare", "DeserializationError">>,
       <<"prepare", "GasMeterInjection">>,
       <<"prepare", "StackLimiterInjection">>,
       <<"prepare", "SerializationError">>,
       <<"compile", "CompileError">>,
       <<"memory", "MemoryError">>,
       <<"instantiate", "InstantiationError">>,
       <<"get_memory", "MissingModuleMemory">>,
       <<"write_inputs", "MemoryError">>,
       <<"get_entry", "MissingModuleEntrypoint">>,
       <<"get_entry", "UnexpectedModuleEntrypointInterface">>,
       <<"call", "RuntimeError">> >>

\* The check ErrorOrder[j] was passed by the run in hand, or is of a stage
\* the runner does not have.
CheckPassed(j) ==
    LET s == ErrorOrder[j][1]
        e == ErrorOrder[j][2]
    IN \/ s \notin Range(PipelineOf(runner, FALSE))
       \/ s \in Range(inst.stages)
       \/ (s = "prepare" /\ inst.prep # <<>> /\ inst.prep[j - 1])
       \/ (/\ e = "MissingModuleEntrypoint"
           /\ "get_memory" \in Range(inst.stages)
           /\ "write_inputs" \in Range(inst.stages)
           /\ EntrypointOf(runner) \in inst.module.exports)

\* C22: a run that ended with an error passed every stage of its runner
\* before the failing one, in the order validation, deserialization, gas
\* meter injection, stack limiter injection, serialization, compilation,
\* memory preparation, instantiation, memory export, writing of the inputs,
\* entrypoint export, entrypoint interface, call; it returns the kind of the
\* first check that failed, and of no later one: a module that exports
\* neither memory nor the entrypoint gets MissingModuleMemory.
C22_FirstFailingStage ==
    (TopLevel /\ pc = "done" /\ result.kind = "Err")
        => /\ IsPrefix(inst.stages, PipelineOf(runner, FALSE))
           /\ \E i \in 1..Len(ErrorOrder) :
                  /\ result.err = ErrorOrder[i][2]
                  /\ ErrorOrder[i][1] \in Range(PipelineOf(runner, FALSE))
                  /\ \A j \in 1..(i - 1) : CheckPassed(j)
                  /\ i < Len(ErrorOrder) => ~CheckPassed(i)
           /\ (/\ "instantiate" \in Range(inst.stages)
               /\ "memory" \notin inst.module.exports)
                  => result = Err("MissingModuleMemory")

C22_Witness ==
    /\ TopLevel
    /\ pc = "done"
    /\ runner = "F"
    /\ inst.module.exports = {}
    /\ result = Err("MissingModuleMemory")

\* C23: a Tx invocation never changes Storage: while TxRunner::run runs and
\* when it has ended, with Ok or with an error, Storage is what it was when
\* run was called; a step of the invocation changes nothing of the caller's
\* but the write log, the gas meter and the verifier set.
C23_TxStorageFrame ==
    /\ []((runner = "Tx" /\ pc # "idle") => storage = pre.storage)
    /\ [][(runner = "Tx" /\ pc # "idle" /\ pc # "done")
          => UNCHANGED <<storage, gasLimit, pre, parVars, routerVars>>]_vars

C23_Witness ==
    /\ runner = "Tx"
    /\ pc = "done"
    /\ result.kind = "Err"
    /\ write_log # pre.write_log
    /\ inserted # {}
    /\ storage = pre.storage

\* A step that is a host call.
HostCallStep ==
    \/ HostRead
    \/ \E k \in Keys : HostWrite(k) \/ HostDelete(k)
    \/ \E a \in Addresses : HostInsertVerifier(a)
    \/ \E m \in EvalModules : HostEval(m)

C25_IteratorHandles ==
    /\ []((runner \in {"Tx", "VP"} /\ pc # "idle")
          => /\ {c.handle : c \in iterators.cursors}
                    = 0..(iterators.index - 1)
             /\ Cardinality(iterators.cursors) = iterators.index
             /\ \A c \in iterators.cursors : c.run = runs)
    /\ [][(pc = "idle" /\ pc' # "idle" /\ runner' \in {"Tx", "VP"})
          => iterators' = NoIterators]_vars
    /\ [][(pc # "idle" /\ runner \in {"Tx", "VP"}
           /\ iterators'.cursors # iterators.cursors
           /\ iterators'.index # iterators.index)
          => /\ iterators'.index = iterators.index + 1
             /\ \E c \in iterators'.cursors :
                    /\ c.handle = iterators.index
                    /\ iterators'.cursors = iterators.cursors \cup {c}]_vars

C25_Witness ==
    /\ runner = "Tx"
    /\ pc = "done"
    /\ runs = 2
    /\ iterators.index = 2
    /\ \E c \in iterators.cursors : c.handle = 1 /\ c.run = 2

\* C26: the messages the consumer has been given are the first of those
\* sent, in the order they were sent; while the consumer listens, the
\* others sent wait in the channel, which never holds more than its
\* capacity: no send goes through while it is full.  A send to a consumer
\* that has closed its end is a fatal error of the host, and the message
\* does not count as sent.
C26_MatchmakerChannel ==
    /\ [](/\ IsPrefix(chan.delivered, mm.sent)
          /\ Len(chan.queue) <= ChanCap
          /\ ~chan.closed => mm.sent = chan.delivered \o chan.queue)
    /\ [][(~chan.closed /\ Len(chan.queue) = ChanCap)
          => mm'.sent = mm.sent]_vars
    /\ [][(chan.closed /\ mm.pc = "running" /\ mm.prog # <<>> /\ mm' # mm)
          => mm'.pc = "fatal" /\ mm'.sent = mm.sent /\ chan' = chan]_vars
    /\ [][mm.pc = "fatal" => mm' = mm]_vars

C26_Witness ==
    /\ mm.pc = "fatal"
    /\ chan.closed
    /\ Len(mm.sent) = 2
    /\ mm.sent[1].kind # mm.sent[2].kind
    /\ chan.delivered = mm.sent

\* The patterns of a router in the order they are declared, each handler's
\* pattern written out in full: after the pattern of the group it is in,
\* and after the pattern of the sub-router it is in.
RECURSIVE Declared(_, _)
Declared(entries, segments) ==
    IF entries = <<>> THEN <<>>
    ELSE LET e == entries[1]
             pattern == segments \o e.pattern
             here ==
                 CASE e.handle.kind = "group" ->
                          Declared(e.handle.children, pattern)
                   [] e.handle.kind = "sub" ->
                          Declared(Routers(e.handle.router), pattern)
                   [] OTHER -> <<Entry(pattern, e.handle)>>
         IN here \o Declared(Tail(entries), segments)

\* The first declared pattern that, tried alone, matches the path of the
\* request to its end; 0 when there is none.
FirstMatch(req) ==
    LET declared == Declared(Routers(req.router), <<>>)
        matching == {i \in 1..Len(declared) :
                        try_match(declared[i], req, 0).k = "return"}
    IN IF matching = {} THEN 0
       ELSE CHOOSE i \in matching : \A j \in matching : i <= j

\* C27: matching is first-match in declaration order: when some pattern
\* matches the path of a request to its end, handle returns what the first
\* such pattern returns, the result or the error of its handler or the
\* error of its request check, and a handler is invoked only when it is
\* the handler of that pattern.
C27_FirstMatch ==
    (routerPc # "idle" /\ routerPc # "requested")
        => LET declared == Declared(Routers(request.router), <<>>)
               first == FirstMatch(request)
           IN /\ first # 0
                     => /\ routerPc = "returned"
                        /\ response
                               = try_match(declared[first], request, 0).resp
              /\ response.handler # ""
                     => /\ first # 0
                        /\ declared[first].handle.name = response.handler

\* What handle returns for the path of a request when the request has no
\* options, and whether a handler of a router is declared without
\* with_options.
Routed(req) ==
    handle([req EXCEPT !.height = DefaultOptions.height,
                       !.prove = DefaultOptions.prove,
                       !.data = DefaultOptions.data]).resp
IsPlain(router, name) ==
    LET declared == Declared(Routers(router), <<>>)
    IN \E i \in 1..Len(declared) : declared[i].handle = Handler(name)

\* C28: a request whose path is routed to a handler declared without
\* with_options is rejected with an error, the handler not invoked, when it
\* asks for a height that is not the latest, or for a proof, or carries
\* data; otherwise the handler runs, and the value it returns is the data
\* of the response, encoded with borsh, with an empty info and no proof.
C28_PlainHandler ==
    (/\ routerPc # "idle" /\ routerPc # "requested"
     /\ Routed(request).handler # ""
     /\ IsPlain(request.router, Routed(request).handler))
        => /\ routerPc = "returned"
           /\ IF \/ request.height \notin {0, LastHeight}
                 \/ request.prove
                 \/ request.data # <<>>
              THEN /\ response.kind = "Err"
                   /\ response.handler = ""
                   /\ response.err \notin {"", "WrongPath", "handler"}
              ELSE /\ response = Routed(request)
                   /\ response.handler = Routed(request).handler
                   /\ response.kind = "Ok"
                          => /\ response.data
                                 = <<"borsh", <<response.handler,
                                                response.args>>>>
                             /\ response.info = ""
                             /\ ~response.proof

\* A request routed to b2i that asks for a proof has been rejected, and so
\* has one to a that carries data.
C28_Witness ==
    /\ routerPc = "returned"
    /\ response.kind = "Err"
    /\ response.handler = ""
    /\ \/ /\ Routed(request).handler = "b2i"
          /\ request.prove
          /\ request.height = 0
          /\ response.err = "NoProof"
       \/ /\ Routed(request).handler = "a"
          /\ request.data # <<>>
          /\ ~request.prove
          /\ response.err = "NoData"

\* The argument tuple args with its i-th argument, an optional one, left
\* out.
WithoutArg(args, i) == [args EXCEPT ![i] = <<>>]

\* The optional arguments of the method of a handler: the places they have
\* among its arguments.
OptionalArgs(name) ==
    LET segments == MethodOf(name).segments
        dynamic == SelectSeq(segments, LAMBDA seg : seg.t # "lit")
    IN {i \in 1..Len(dynamic) : dynamic[i].t = "opt"}

\* C29: an optional typed argument is Some(parsed) when the segment at its
\* place parses, and the match goes on after that segment; it is None when
\* the segment does not parse, and the match goes on at the same place: a
\* path with the optional segment is routed to the handler with the
\* argument Some, and the same path without that segment is routed to the
\* same handler with the argument None and the other arguments the same.
C29_OptionalArg ==
    (/\ routerPc # "idle" /\ routerPc # "requested"
     /\ request.handler # "")
        => \A i \in OptionalArgs(request.handler) :
               /\ routerPc = "returned"
               /\ response.handler = request.handler
               /\ response.args[i] = request.args[i]
               /\ LET without == WithoutArg(request.args, i)
                      path == handler_path(request.handler, without)
                  IN handle([request EXCEPT !.path = path])
                         = Returned(RouterOk(request.handler, without))

\* A path of b3iii with its optional argument has been routed, and so has
\* a path of b3iiii with the second of its optional arguments and not the
\* first.
C29_Witness ==
    /\ routerPc = "returned"
    /\ response.kind = "Ok"
    /\ \/ /\ request.handler = "b3iii"
          /\ request.args[3] # <<>>
          /\ response.args[3] = request.args[3]
       \/ /\ request.handler = "b3iiii"
          /\ request.args[3] = <<>>
          /\ request.args[4] # <<>>
          /\ response.args = request.args

\* Whether the last element of the pattern of a declared handler is a typed
\* argument, and that pattern with a literal in the place of its last
\* element: it matches the paths that the elements before the argument
\* match, followed by that literal.
EndsTyped(entry) ==
    /\ Len(entry.pattern) > 1
    /\ entry.pattern[Len(entry.pattern)].t = "typed"
    /\ entry.handle.kind \in {"handler", "with_options"}
Before(entry) ==
    Entry(SubSeq(entry.pattern, 1, Len(entry.pattern) - 1)
              \o <<Lit(<<"#">>)>>,
          Handler("before"))

Delegates(router, i, req) ==
    LET path == req.path
    IN /\ router[i].handle.kind = "sub"
       /\ Len(path) > 1
       /\ path[1] = "/"
       /\ SliceOk(path, 1, Len(path))
       /\ Slice(path, 1, find_next_slash_index(path, 1))
              = router[i].pattern[1].s
       /\ \A j \in 1..(i - 1) : try_match(router[j], req, 0) = Break

\* What handle comes to when internal_handle of the sub-router does so.
Outcome(r) ==
    CASE r.k = "return" -> <<"returned", r.resp>>
      [] r.k = "panic" -> <<"panicked", r.resp>>
      [] r.k = "loops" -> <<"looping", r.resp>>

\* C31: when the literal of a sub-router pattern matches, the request is
\* handed to the sub-router with the position moved back to the "/" that
\* follows the literal; the position moved back is never below 0; and what
\* the sub-router returns, WrongPath included, is what handle returns, no
\* later pattern of the parent being tried.
C31_SubRouter ==
    (routerPc # "idle" /\ routerPc # "requested")
        => LET router == Routers(request.router)
               path == request.path
               end == find_next_slash_index(path, 1)
               start == advance_past_slash(path, end) - 1
           IN \A i \in 1..Len(router) :
                  Delegates(router, i, request)
                      => /\ start >= 0
                         /\ start < Len(path)
                         /\ path[start + 1] = "/"
                         /\ <<routerPc, response>>
                                = Outcome(internal_handle(
                                      Routers(router[i].handle.router),
                                      request, start))

\* Whether i is the index find_next_slash_index is said to return: the
\* smallest one from start on with a "/" there, or the length of the path
\* when there is none; it lies between start and the length.
IsNextSlash(path, start, i) ==
    /\ start <= i
    /\ i <= Len(path)
    /\ i < Len(path) => path[i + 1] = "/"
    /\ \A j \in start..(i - 1) : path[j + 1] # "/"

C33_HandleReturns ==
    (routerPc # "idle" /\ routerPc # "requested")
        => /\ routerPc # "panicked"
           /\ routerPc # "looping"
           /\ response.kind \in {"Ok", "Err"}

\* The values a response's handler got for the untyped arguments of its
\* pattern.
UntypedArgs(router, resp) ==
    LET declared == Declared(Routers(router), <<>>)
    IN UNION {LET dynamic == SelectSeq(declared[i].pattern,
                                       LAMBDA seg : seg.t # "lit")
              IN {resp.args[j] : j \in {n \in 1..Len(dynamic) :
                                            dynamic[n].t = "untyped"}} :
              i \in {n \in 1..Len(declared) :
                        declared[n].handle.name = resp.handler}}

\* C34: every value bound to an untyped argument is a segment of the path
\* that is not empty and has no "/" in it; so a path that ends right after
\* the literal before the argument, with a "/" after it or without, is not
\* routed to the handler of the pattern.
C34_UntypedArg ==
    (routerPc = "returned" /\ response.handler # "")
        => \A arg \in UntypedArgs(request.router, response) :
               /\ arg # <<>>
               /\ \A i \in 1..Len(arg) : arg[i] # "/"

----------------------------------------------------------------------------
(* Claim C35 *)

\* The intent of the n-th handled event is on the gossip.
OnGossip(n) ==
    \E m \in 1..Len(p2p.gossip) :
        /\ p2p.gossip[m].n = n
        /\ p2p.gossip[m].intent = p2p.events[n].event.intent
        /\ p2p.gossip[m].topic = p2p.events[n].event.topic

\* What P2P::handle_rpc_event does with an intent that is absent or that
\* apply_intent did not accept, and the one response of every event.
RpcArms ==
    /\ \A n \in 1..Len(p2p.events) :
           LET e == p2p.events[n]
           IN /\ (e.event.kind = "Intent" /\ e.event.intent = "None")
                     => e.applied = "not called" /\ ~OnGossip(n)
              /\ e.applied \in {"Ok(false)", "Err"} => ~OnGossip(n)
              /\ e.event.kind # "Intent" => ~OnGossip(n)
    /\ Len(p2p.responses) = Len(p2p.events)
    /\ Len(p2p.gossip) <= Len(p2p.events)

\* C35 as stated: an intent is published on the gossip topic if and only if
\* it is present in the message and apply_intent returned Ok(true); an empty
\* intent is neither applied nor published, an intent for which apply_intent
\* returned Ok(false) or an error is not published, and every event gets
\* exactly one RpcResponse.
C35_Original ==
    /\ \A n \in 1..Len(p2p.events) :
           LET e == p2p.events[n]
           IN OnGossip(n) <=> (/\ e.event.kind = "Intent"
                               /\ e.event.intent # "None"
                               /\ e.applied = "Ok(true)")
    /\ RpcArms

\* C35, amended: publish is called if and only if the intent is present in
\* the message and apply_intent returned Ok(true), and the intent is on the
\* gossip topic if and only if, besides, publish returned Ok; when publish
\* returns an error the response is "Failed to publish_intent" and nothing
\* is published.  An empty intent is neither applied nor published, an
\* intent for which apply_intent returned Ok(false) or an error is not
\* published, and every event gets exactly one RpcResponse.
C35_HandleRpcEvent ==
    /\ \A n \in 1..Len(p2p.events) :
           LET e == p2p.events[n]
               accepted == /\ e.event.kind = "Intent"
                           /\ e.event.intent # "None"
                           /\ e.applied = "Ok(true)"
           IN /\ e.published # "not called" <=> accepted
              /\ OnGossip(n) <=> (accepted /\ e.published = "Ok")
              /\ (accepted /\ e.published = "Err")
                     => p2p.responses[n] = "Failed to publish_intent"
              /\ p2p.responses[n] = "Intent sent correctly" <=> OnGossip(n)
    /\ RpcArms

\* An intent published, an accepted intent that publish refused and an
\* empty intent have been handled.
C35_Witness ==
    /\ Len(p2p.events) = 3
    /\ \E a, b, c \in 1..3 :
           /\ OnGossip(a)
           /\ p2p.events[b].applied = "Ok(true)"
           /\ p2p.events[b].published = "Err"
           /\ ~OnGossip(b)
           /\ p2p.events[c].event.kind = "Intent"
           /\ p2p.events[c].event.intent = "None"
           /\ p2p.events[c].applied = "not called"
====
